---- MODULE Spec2Model ----
(***************************************************************************)
(* Model of the agent orchestration engine of the retrieval assistant:     *)
(* services/rag/agent.py (RagAgent.run, _choose_scenario, the tool loop),  *)
(* services/rag/tool_executor.py and services/rag/tool_registry.py.        *)
(*                                                                         *)
(* Text is modelled by what the code tests on it.  A query is a sequence   *)
(* of atoms: "ws" is a run of whitespace, "txt" is text that contains no   *)
(* search keyword, and a keyword atom is an occurrence of that keyword     *)
(* (the Russian words are transliterated; "Naidi" is the capitalised       *)
(* spelling of "naidi").  Confidence values are in tenths.                 *)
(***************************************************************************)
EXTENDS Integers, Sequences, FiniteSets, TLC

VARIABLES
    query,                  \* run(query=...)
    history,                \* chat history loaded for the turn (roles)
    selected_document_ids,  \* run(selected_document_ids=...), None = {}
    pc,                     \* position of the coroutine run()
    reply,                  \* what the classification completion call did
    decision,               \* ScenarioDecision returned by _choose_scenario
    scenario,               \* local variable scenario of run()
    allowed_tools,          \* local variable allowed_tools of run()
    tools_computed,         \* run() has reached line 207
    path,                   \* which branch of run() produces the answer
    result,                 \* the AgentResult returned by run()
    raised,                 \* the exception that left run(), "" if none
    iteration,              \* completed passes of the tool loop
    enable_parallel,        \* local variable of _run_tool_conversation
    collected_chunks,       \* local variable of _run_tool_conversation
    chat_calls,             \* completion calls made by the tool loop
    final_call,             \* index of the first response without tool calls
    final_content,          \* raw content of that response
    handler_ran,            \* a tool handler was invoked in the turn
    outage_seen,            \* a retrieval call failed inside a tool call
    outage_payload,         \* an outage was sent to the model as a tool error
    tool_messages,          \* call ids of the tool messages of the last batch
    transcript_chunks,      \* evidence carried by the tool messages so far
    arg_error_unreported,   \* such a call was left without an error message
    outage_retried,         \* a retrieval call was issued again after an outage
    requested_calls,        \* len(tool_calls) of the last assistant message
    parallel_raised,        \* the except at agent.py:576 has run in the turn
    parallel_after_raise,   \* the executor was called again after that
    debug_total_length,     \* debug["selected_docs"]["total_length"], -1 unset
    ep_executions,          \* the plan handed to execute_plan
    plan_pc,                \* position of the coroutine execute_plan
    ep_pending,             \* keys of the dict pending
    ep_completed,           \* the set completed
    ep_results,             \* keys of the dict results
    wave,                   \* tool names of the tasks being gathered
    task,                   \* per tool name, its _execute_with_retry task
    exec_result,            \* executions (by index) whose result is set
    exec_error,             \* executions (by index) whose error is set
    waves_run,              \* waves started by this call of execute_plan
    fn_pc,                  \* the function being called outside a turn
    fn_args,                \* its arguments
    fn_ret,                 \* its return value, once it has returned
    client,                 \* which external client the calls below go to
    now,                    \* what _now_ts() returns
    cache,                  \* self._cache of the client
    fetches,                \* the in-flight fetch/search coroutines
    issued,                 \* requests sent to the remote API so far
    stored                  \* every entry ever written to the cache

turnVars == <<query, history, selected_document_ids, pc, reply, decision,
          scenario,
          allowed_tools, tools_computed, path, result, raised, iteration,
          enable_parallel, collected_chunks, chat_calls, final_call,
          final_content, handler_ran, outage_seen, outage_payload,
          tool_messages, transcript_chunks, arg_error_unreported,
          outage_retried, requested_calls, parallel_raised,
          parallel_after_raise, debug_total_length>>

planVars == <<ep_executions, plan_pc, ep_pending, ep_completed, ep_results,
              wave, task, exec_result, exec_error, waves_run>>

fnVars == <<fn_pc, fn_args, fn_ret>>

cacheVars == <<client, now, cache, fetches, issued, stored>>

vars == <<turnVars, planVars, fnVars, cacheVars>>

\* what a step of a turn, of the executor, of a function called outside a
\* turn, and of an external client leaves alone
besideTurn == <<planVars, fnVars, cacheVars>>
besidePlan == <<turnVars, fnVars, cacheVars>>
besideFn == <<turnVars, planVars, cacheVars>>
besideCache == <<turnVars, planVars, fnVars>>

loopVars == <<iteration, enable_parallel, collected_chunks, chat_calls,
              final_call, final_content, handler_ran, outage_seen,
              outage_payload, tool_messages, transcript_chunks,
              arg_error_unreported, outage_retried, requested_calls,
              parallel_raised, parallel_after_raise>>

----------------------------------------------------------------------------
(* Bounds of the model *)

MaxQueryLen == 2        \* atoms in a query
MaxHistory == 1         \* messages of history
NumDocs == 1            \* document ids a user can select
MaxClarifications == 4  \* clarifications a classification reply can carry
MaxBatch == 2           \* tool calls in one completion response
MaxChunks == 1          \* chunks collected in one turn
MaxPlan == 3            \* executions in a plan handed to execute_plan

(* Program constants *)

orchestrator_confidence_threshold == 6   \* 0.6, in tenths
clarifications_limit == 3
max_context_chars == 50000
max_iterations == 10
max_retries == 2
default_scenario == 3                    \* parsed.get("scenario", 3)
default_confidence == 5                  \* parsed.get("confidence", 0.5)

----------------------------------------------------------------------------
(* Text *)

search_keywords ==
    {"naiti", "naidi", "ishchi", "poisk", "gde", "kakoi dogovor",
     "kakoi dokument", "pokazhi", "podberi"}

QueryAtoms == {"ws", "txt", "gde", "Naidi"}

\* str.lower() on one atom
LowerAtom(a) == IF a = "Naidi" THEN "naidi" ELSE a

\* str.lower()
Lower(q) == [i \in 1..Len(q) |-> LowerAtom(q[i])]

\* any(k in q for k in search_keywords)
ContainsKeyword(q) == \E i \in 1..Len(q) : q[i] \in search_keywords

\* not q.strip()
IsBlank(q) == \A i \in 1..Len(q) : q[i] = "ws"

SeqsUpTo(S, n) == UNION {[1..k -> S] : k \in 0..n}

Queries == SeqsUpTo(QueryAtoms, MaxQueryLen)
Histories == SeqsUpTo({"user", "assistant"}, MaxHistory)
DocIds == 1..NumDocs
Selections == SUBSET DocIds

Min(a, b) == IF a < b THEN a ELSE b

----------------------------------------------------------------------------
(* The classification completion call and its reply *)

Num(n) == [k |-> "num", v |-> n]
Absent == [k |-> "absent", v |-> 0]     \* the key is missing
Bad == [k |-> "bad", v |-> 0]           \* a value int()/float() rejects

\* What self._chat.chat(...) can do at agent.py:298.  kind "transport_error":
\* the call raises (HTTP error, timeout); "malformed": the content is not a
\* JSON object; "json": a JSON object with these keys.
Reply(kind, scn, conf, fu, clar, uqe, intent) ==
    [kind |-> kind, scenario |-> scn, confidence |-> conf, follow_up |-> fu,
     clarifications |-> clar, use_query_expansion |-> uqe, intent |-> intent]

NoReply == Reply("none", Absent, Absent, FALSE, <<>>, "None", "None")
TransportError ==
    Reply("transport_error", Absent, Absent, FALSE, <<>>, "None", "None")
Malformed == Reply("malformed", Absent, Absent, FALSE, <<>>, "None", "None")

ClarificationLists == {[i \in 1..n |-> i] : n \in {0, 1, MaxClarifications}}

JsonReplies(scns, confs, clars, uqes, intents) ==
    {Reply("json", s, c, fu, cl, u, i) :
        s \in scns, c \in confs, fu \in BOOLEAN, cl \in clars, u \in uqes,
        i \in intents}

\* int(parsed.get("scenario", 3)), defined when the value is numeric
LlmScenario(parsed) ==
    IF parsed.scenario.k = "absent" THEN default_scenario
    ELSE parsed.scenario.v

\* float(parsed.get("confidence", 0.5)), defined when the value is numeric
LlmConfidence(parsed) ==
    IF parsed.confidence.k = "absent" THEN default_confidence
    ELSE parsed.confidence.v

\* int()/float() failures not treated as failures
ParseFailsOnlyMalformed(resp) == resp.kind = "malformed"

\* an exception inside the try block of _choose_scenario
ParseFails(resp) ==
    \/ resp.kind = "malformed"
    \/ resp.scenario.k = "bad"
    \/ resp.confidence.k = "bad"

\* use_qe = parsed.get("use_query_expansion"); a str is compared in lower case
CoerceUseQe(raw) ==
    CASE raw = "s:yes" -> "True"
      [] raw = "s:no" -> "False"
      [] OTHER -> raw

\* the keyword test made before the test of the selected documents
RuleGuessKeywordFirst(q_in, hist, selected_ids) ==
    LET q == Lower(q_in) IN
    IF ContainsKeyword(q) THEN 1
    ELSE IF selected_ids # {} THEN 3
    ELSE IF IsBlank(q) THEN 5
    ELSE 2

\* "not q" in place of "not q.strip()"
RuleGuessNoStrip(q_in, hist, selected_ids) ==
    IF selected_ids # {} THEN 3
    ELSE LET q == Lower(q_in) IN
         IF ContainsKeyword(q) THEN 1
         ELSE IF q = <<>> THEN 5
         ELSE 2

_rule_guess_scenario(q_in, hist, selected_ids) ==
    IF selected_ids # {} THEN 3
    ELSE LET q == Lower(q_in) IN
         IF ContainsKeyword(q) THEN 1
         ELSE IF IsBlank(q) THEN 5
         ELSE 2

\* ">" in place of ">="
GateStrict(llm_scenario, confidence, rule_guess) ==
    IF confidence > orchestrator_confidence_threshold THEN llm_scenario
    ELSE rule_guess

\* the model's scenario taken whatever its confidence
GateOpen(llm_scenario, confidence, rule_guess) == llm_scenario

ConfidenceGate(llm_scenario, confidence, rule_guess) ==
    IF confidence >= orchestrator_confidence_threshold THEN llm_scenario
    ELSE rule_guess

FallbackDecision(rule_guess) ==
    [scenario |-> rule_guess, confidence |-> 0, reason |-> "rule fallback",
     follow_up |-> FALSE, clarifications |-> <<>>,
     use_query_expansion |-> "None", rule_guess |-> rule_guess,
     raw_response |-> NoReply, intent |-> "None"]

ParsedDecision(parsed, rule_guess) ==
    [scenario |->
        ConfidenceGate(LlmScenario(parsed), LlmConfidence(parsed), rule_guess),
     confidence |-> LlmConfidence(parsed),
     reason |-> "model",
     follow_up |-> parsed.follow_up,
     clarifications |->
        SubSeq(parsed.clarifications, 1,
               Min(Len(parsed.clarifications), clarifications_limit)),
     use_query_expansion |-> CoerceUseQe(parsed.use_query_expansion),
     rule_guess |-> rule_guess,
     raw_response |-> parsed,
     intent |-> parsed.intent]

\* The exception that leaves _choose_scenario, "" when it returns.  The
\* completion call is made before the try block is entered.
ChooseScenarioRaises(resp) ==
    IF resp.kind = "transport_error" THEN "completion_error" ELSE ""

_choose_scenario(q, hist, selected_ids, resp) ==
    LET rule_guess == _rule_guess_scenario(q, hist, selected_ids) IN
    IF ParseFails(resp) THEN FallbackDecision(rule_guess)
    ELSE ParsedDecision(resp, rule_guess)

NoDecision ==
    [scenario |-> 0, confidence |-> 0, reason |-> "", follow_up |-> FALSE,
     clarifications |-> <<>>, use_query_expansion |-> "None",
     rule_guess |-> 0, raw_response |-> NoReply, intent |-> "None"]

NoResult == [answer |-> "none", used_chunks |-> <<>>, scenario |-> 0]

----------------------------------------------------------------------------
(* Scenario decision on its own: every input, every reply *)

Replies ==
    {TransportError, Malformed} \cup
    JsonReplies({Absent, Bad} \cup {Num(n) : n \in {1, 2, 3, 5, 7}},
                {Absent, Bad} \cup {Num(n) : n \in {3, 6, 9}},
                ClarificationLists,
                {"None", "s:yes"},
                {"None", "small_talk"})

\* tool names of a plan
PlanNames == {"A", "B", "C"}

\* a task of _execute_with_retry that has not started
IdleTask ==
    [status |-> "idle", attempts |-> 0, failures |-> 0, delays |-> <<>>,
     last_error |-> -1]

\* execute_plan has not been called with the plan P
ExecutorIdle(P) ==
    /\ ep_executions \in P
    /\ plan_pc = "idle"
    /\ ep_pending = {}
    /\ ep_completed = {}
    /\ ep_results = {}
    /\ wave = {}
    /\ task = [n \in PlanNames |-> IdleTask]
    /\ exec_result = {}
    /\ exec_error = {}
    /\ waves_run = 0

\* no function is being called outside a turn
FunctionsIdle == fn_pc = "idle" /\ fn_args = <<>> /\ fn_ret = <<>>

\* no call of an external client is in flight and nothing is cached
ClientsIdle ==
    /\ client = "none"
    /\ now = 0
    /\ cache = <<>>
    /\ fetches = <<>>
    /\ issued = 0
    /\ stored = {}

\* run() is called
TurnStart(Q, H, S) ==
    /\ query \in Q
    /\ history \in H
    /\ selected_document_ids \in S
    /\ pc = "start"
    /\ reply = NoReply
    /\ decision = NoDecision
    /\ scenario = 0
    /\ allowed_tools = <<>>
    /\ tools_computed = FALSE
    /\ path = "none"
    /\ result = NoResult
    /\ raised = ""
    /\ iteration = 0
    /\ enable_parallel = TRUE
    /\ collected_chunks = <<>>
    /\ chat_calls = 0
    /\ final_call = 0
    /\ final_content = "none"
    /\ handler_ran = FALSE
    /\ outage_seen = FALSE
    /\ outage_payload = FALSE
    /\ tool_messages = <<>>
    /\ transcript_chunks = <<>>
    /\ arg_error_unreported = FALSE
    /\ outage_retried = FALSE
    /\ requested_calls = 0
    /\ parallel_raised = FALSE
    /\ parallel_after_raise = FALSE
    /\ debug_total_length = -1

InitInputs(Q, H, S) ==
    TurnStart(Q, H, S) /\ ExecutorIdle({<<>>}) /\ FunctionsIdle /\ ClientsIdle

\* decision = await self._choose_scenario(...); scenario = decision.scenario
ChooseScenarioOn(R) ==
    /\ pc = "start"
    /\ UNCHANGED besideTurn
    /\ \E resp \in R :
        /\ reply' = resp
        /\ IF ChooseScenarioRaises(resp) # ""
           THEN /\ pc' = "raised"
                /\ raised' = ChooseScenarioRaises(resp)
                /\ UNCHANGED <<decision, scenario>>
           ELSE /\ decision' =
                    _choose_scenario(query, history, selected_document_ids,
                                     resp)
                /\ scenario' = decision'.scenario
                /\ pc' = "decided"
                /\ UNCHANGED raised
    /\ UNCHANGED <<query, history, selected_document_ids, allowed_tools,
                   tools_computed, path, result, debug_total_length>>
    /\ UNCHANGED loopVars

InitDecide == InitInputs(Queries, Histories, Selections)

Decide == ChooseScenarioOn(Replies)

SpecDecide == InitDecide /\ [][Decide]_vars

----------------------------------------------------------------------------
(* run() after the decision: lines 171-224 *)

\* total character length _load_documents can measure
DocLengths == {0, max_context_chars, max_context_chars + 1}

\* scenario 4 never lowered to 3
AdjustOnlyRaises(selected_ids, scn, total_len) ==
    IF scn \in {3, 4} /\ selected_ids # {}
    THEN [scenario |-> IF total_len > max_context_chars THEN 4 ELSE scn,
          total_length |-> total_len]
    ELSE [scenario |-> scn, total_length |-> -1]

_adjust_scenario_for_documents(selected_ids, scn, total_len) ==
    IF scn \in {3, 4} /\ selected_ids # {}
    THEN [scenario |-> IF total_len > max_context_chars THEN 4 ELSE 3,
          total_length |-> total_len]
    ELSE [scenario |-> scn, total_length |-> -1]

\* the intent tested before the scenario
ToolsIntentFirst(scn, intent) ==
    IF intent \in {"small_talk", "off_topic"} THEN <<>>
    ELSE CASE scn \in {1, 4} -> <<"search_user_documents">>
           [] scn = 2 ->
                CASE intent = "cbr_rate" -> <<"fetch_cbr_data">>
                  [] intent = "finance_news" -> <<"fetch_finance_news">>
                  [] intent = "hybrid_kb_docs" ->
                        <<"search_general_kb", "search_user_documents">>
                  [] OTHER -> <<"search_general_kb">>
           [] scn = 3 -> <<"load_documents_full">>
           [] OTHER -> <<>>

_tools_for_scenario(scn, intent) ==
    CASE scn = 1 -> <<"search_user_documents">>
      [] scn = 2 ->
            CASE intent \in {"small_talk", "off_topic"} -> <<>>
              [] intent = "cbr_rate" -> <<"fetch_cbr_data">>
              [] intent = "finance_news" -> <<"fetch_finance_news">>
              [] intent = "knowledge_base" -> <<"search_general_kb">>
              [] intent = "hybrid_kb_docs" ->
                    <<"search_general_kb", "search_user_documents">>
              [] OTHER -> <<"search_general_kb">>
      [] scn = 3 -> <<"load_documents_full">>
      [] scn = 4 -> <<"search_user_documents">>
      [] OTHER -> <<>>

\* the empty tool list not tested
BranchScenarioFiveOnly(scn, tools, intent) ==
    IF intent \in {"small_talk", "off_topic"} THEN "predefined"
    ELSE IF scn = 5 THEN "clarification"
    ELSE "tool_loop"

\* the intent not tested
BranchWithoutIntent(scn, tools, intent) ==
    IF scn = 5 \/ tools = <<>> THEN "clarification" ELSE "tool_loop"

\* the branch run() takes once scenario and allowed_tools are known
BranchOf(scn, tools, intent) ==
    IF intent \in {"small_talk", "off_topic"} THEN "predefined"
    ELSE IF scn = 5 \/ (tools = <<>> /\ intent # "small_talk"
                                    /\ intent # "off_topic")
    THEN "clarification"
    ELSE "tool_loop"

AgentResult(answer, chunks, scn) ==
    [answer |-> answer, used_chunks |-> chunks, scenario |-> scn]

RunAfterDecision ==
    /\ pc = "decided"
    /\ UNCHANGED besideTurn
    /\ IF decision.follow_up
       THEN /\ scenario' = 5
            /\ path' = "clarification"
            /\ pc' = "clarify"
            /\ UNCHANGED <<allowed_tools, tools_computed, result,
                           debug_total_length>>
       ELSE \E total_len \in
                IF scenario \in {3, 4} /\ selected_document_ids # {}
                THEN DocLengths ELSE {0} :
            LET adj == _adjust_scenario_for_documents(
                           selected_document_ids, scenario, total_len)
                tools == _tools_for_scenario(adj.scenario, decision.intent)
                branch == BranchOf(adj.scenario, tools, decision.intent)
            IN  /\ scenario' = adj.scenario
                /\ debug_total_length' = adj.total_length
                /\ allowed_tools' = tools
                /\ tools_computed' = TRUE
                /\ path' = branch
                /\ IF branch = "predefined"
                   THEN /\ result' = AgentResult("predefined", <<>>,
                                                 adj.scenario)
                        /\ pc' = "done"
                   ELSE /\ pc' = IF branch = "clarification"
                                 THEN "clarify" ELSE "tool_loop"
                        /\ UNCHANGED result
    /\ UNCHANGED <<query, history, selected_document_ids, reply, decision,
                   raised>>
    /\ UNCHANGED loopVars

\* answer = await self._ask_clarification(...): one completion call
AskClarification ==
    /\ pc = "clarify"
    /\ UNCHANGED besideTurn
    /\ \E ok \in BOOLEAN :
        IF ok
        THEN /\ result' = AgentResult("clarification", <<>>, scenario)
             /\ pc' = "done"
             /\ UNCHANGED raised
        ELSE /\ raised' = "completion_error"
             /\ pc' = "raised"
             /\ UNCHANGED result
    /\ UNCHANGED <<query, history, selected_document_ids, reply, decision,
                   scenario, allowed_tools, tools_computed, path,
                   debug_total_length>>
    /\ UNCHANGED loopVars

----------------------------------------------------------------------------
(* Tool calls, handlers and the environment of one batch *)

\* the registered tools the model follows
ToolCallNames == {"search_user_documents", "load_documents_full"}

\* The arguments string of a tool call.  "given": a JSON object that carries
\* the field the tool keys on (a non-blank query for search_user_documents,
\* a non-empty document_ids for load_documents_full); "missing": a JSON
\* object without it; "unparsable": not JSON; "nonobject": JSON that is not
\* an object.
ArgKinds == {"given", "missing", "unparsable", "nonobject"}

\* One entry of message["tool_calls"].
ToolCallsOf(names, kinds) == [name : names, args : kinds]

ToolCalls == ToolCallsOf(ToolCallNames, {"given", "missing"})

Batches == UNION {[1..k -> ToolCalls] : k \in 1..MaxBatch}

NamesOf(calls) == {calls[i].name : i \in 1..Len(calls)}

\* How many of its first backend requests fail, per tool, while one batch is
\* dispatched: none, one, or every one of them.
FailCounts == {0, 1, max_retries + 1}

\* ToolRegistry._parse_arguments raises ValueError
ParseArgumentsRaises(args) == args \in {"unparsable", "nonobject"}

\* the handler raises ValueError before it reaches the backend
HandlerRejects(name, args, selected_ids) ==
    IF name = "search_user_documents" THEN args # "given"
    ELSE args # "given" /\ selected_ids = {}

\* ToolRegistry.execute raises ValueError before the backend is reached
ArgumentError(call, selected_ids) ==
    \/ call.name \notin ToolCallNames
    \/ ParseArgumentsRaises(call.args)
    \/ HandlerRejects(call.name, call.args, selected_ids)

\* What a failing backend request raises out of the handler: _search_chunks
\* and _search_with_expansion wrap every failure in VectorSearchError.
BackendError(name) ==
    IF name = "search_user_documents" THEN "VectorSearchError"
    ELSE "Exception"

\* used_chunks of the successful ToolResult of the call id
ResultChunks(name, env, id) ==
    IF name = "search_user_documents" THEN [i \in 1..env.chunks |-> id]
    ELSE <<>>

\* the evidence left as it was
ExtendNothing(acc, used) == acc

\* collected_chunks.extend(result.used_chunks)
ExtendChunks(acc, used) == acc \o used

\* the tool-role message appended for the call id
ToolMessage(id, status, carried) ==
    [id |-> id, status |-> status, chunks |-> carried]

----------------------------------------------------------------------------
(* Sequential dispatch: agent.py lines 585-632 *)

\* except Exception at line 617
SequentialCatches(exc) == TRUE

RECURSIVE SequentialDispatch(_, _, _, _, _)
SequentialDispatch(calls, i, selected_ids, env, acc) ==
    IF i > Len(calls) \/ acc.raised # "" THEN acc
    ELSE
    LET call == calls[i]
        rejected == ArgumentError(call, selected_ids)
        requests == acc.requests[call.name] + 1
        exc == IF rejected THEN "ValueError"
               ELSE IF requests <= env.fails[call.name]
               THEN BackendError(call.name)
               ELSE ""
        used == ResultChunks(call.name, env, i)
        next ==
            [chunks |-> IF exc = "" THEN ExtendChunks(acc.chunks, used)
                        ELSE acc.chunks,
             messages |->
                IF exc = "" THEN Append(acc.messages, ToolMessage(i, "ok", used))
                ELSE IF SequentialCatches(exc)
                THEN Append(acc.messages, ToolMessage(i, "error", <<>>))
                ELSE acc.messages,
             requests |-> IF rejected THEN acc.requests
                          ELSE [acc.requests EXCEPT ![call.name] = requests],
             outage |-> acc.outage \/ exc = "VectorSearchError",
             payload |-> acc.payload \/
                         (exc = "VectorSearchError" /\ SequentialCatches(exc)),
             ran |-> acc.ran \/ call.name \in ToolCallNames,
             raised |-> IF exc # "" /\ ~SequentialCatches(exc) THEN exc
                        ELSE "",
             parallel_failed |-> FALSE,
             retried |-> FALSE,
             handlers |-> IF /\ call.name \in ToolCallNames
                             /\ ~ParseArgumentsRaises(call.args)
                          THEN acc.handlers \cup {call.name}
                          ELSE acc.handlers]
    IN SequentialDispatch(calls, i + 1, selected_ids, env, next)

----------------------------------------------------------------------------
(* Parallel dispatch: tool_executor.py and agent.py lines 497-581 *)

\* args.get("document_ids") on arguments that are not a dict
AnalysisRaises(calls) ==
    \E i \in 1..Len(calls) :
        calls[i].name = "load_documents_full" /\ calls[i].args = "nonobject"

\* args = json.loads(...), {} when the string is not JSON
AnalysedArgs(args) == IF args = "unparsable" THEN "missing" ELSE args

\* the dependency given whenever the batch holds a search, wherever it is
AnalyzeAnyPosition(calls) ==
    [i \in 1..Len(calls) |->
        [tool_name |-> calls[i].name,
         args |-> AnalysedArgs(calls[i].args),
         depends_on |->
            IF /\ calls[i].name = "load_documents_full"
               /\ AnalysedArgs(calls[i].args) # "given"
               /\ \E j \in 1..Len(calls) :
                      calls[j].name = "search_user_documents"
            THEN {"search_user_documents"}
            ELSE {}]]

analyze_dependencies(calls) ==
    [i \in 1..Len(calls) |->
        [tool_name |-> calls[i].name,
         args |-> AnalysedArgs(calls[i].args),
         depends_on |->
            IF /\ calls[i].name = "load_documents_full"
               /\ AnalysedArgs(calls[i].args) # "given"
               /\ \E j \in 1..(i - 1) : calls[j].name = "search_user_documents"
            THEN {"search_user_documents"}
            ELSE {}]]

\* pending = {ex.tool_name: ex for ex in executions}: the last one wins
PendingOf(executions) ==
    [n \in {executions[i].tool_name : i \in 1..Len(executions)} |->
        LET last == CHOOSE i \in 1..Len(executions) :
                        /\ executions[i].tool_name = n
                        /\ \A j \in (i + 1)..Len(executions) :
                               executions[j].tool_name # n
        IN executions[last]]

\* the registry rejects the arguments of an execution
ExecutionRejected(ex, selected_ids) ==
    ArgumentError([name |-> ex.tool_name, args |-> ex.args], selected_ids)

\* attempt a (from 0) of an execution fails
AttemptFails(ex, a, selected_ids, env) ==
    \/ ExecutionRejected(ex, selected_ids)
    \/ a + 1 <= env.fails[ex.tool_name]

\* _execute_with_retry: attempts 0..max_retries, stop at the first success
_execute_with_retry(ex, selected_ids, env) ==
    LET good == {a \in 0..max_retries : ~AttemptFails(ex, a, selected_ids, env)}
        first == IF good = {} THEN max_retries + 1
                 ELSE CHOOSE a \in good : \A b \in good : a <= b
        error_of(a) ==
            IF ExecutionRejected(ex, selected_ids)
            THEN "ValueError" ELSE BackendError(ex.tool_name)
    IN [ok |-> good # {},
        attempts |-> IF good = {} THEN max_retries + 1 ELSE first + 1,
        failures |-> {error_of(a) : a \in 0..(first - 1)},
        error |-> IF good = {} THEN error_of(max_retries) ELSE ""]

RECURSIVE Waves(_, _, _, _, _, _)
Waves(pending, names, completed, outcomes, selected_ids, env) ==
    IF names = {} THEN [raised |-> "", outcomes |-> outcomes]
    ELSE
    LET ready == {n \in names : pending[n].depends_on \subseteq completed}
    IN IF ready = {}
       THEN [raised |-> "RuntimeError", outcomes |-> outcomes]
       ELSE Waves(pending, names \ ready, completed \cup ready,
                  [n \in DOMAIN outcomes \cup ready |->
                      IF n \in ready
                      THEN _execute_with_retry(pending[n], selected_ids, env)
                      ELSE outcomes[n]],
                  selected_ids, env)

\* function.name of a tool call is a non-empty JSON array or an object: a
\* list or a dict, which cannot be the key of a dict
Unhashable(name) == name = "unhashable_name"

\* execute_plan: the outcome of every execution, or the circular-dependency
\* error, or the TypeError of building the dict pending
execute_plan(executions, selected_ids, env) ==
    IF \E i \in 1..Len(executions) : Unhashable(executions[i].tool_name)
    THEN [raised |-> "TypeError", outcomes |-> <<>>]
    ELSE
    LET pending == PendingOf(executions)
    IN Waves(pending, DOMAIN pending, {}, <<>>, selected_ids, env)

\* except Exception at line 576
ParallelCatches(exc) == TRUE

\* index in the batch of the execution the executor ran for a tool name
RanIndex(calls, name) ==
    CHOOSE i \in 1..Len(calls) :
        /\ calls[i].name = name
        /\ \A j \in (i + 1)..Len(calls) : calls[j].name # name

\* the messages of the successful calls first, then those of the failed ones
ResultMessagesSuccessFirst(calls, results, env) ==
    LET all == [i \in 1..Len(calls) |->
                    IF calls[i].name \in results
                    THEN ToolMessage(i, "ok",
                            ResultChunks(calls[i].name, env,
                                         RanIndex(calls, calls[i].name)))
                    ELSE ToolMessage(i, "error", <<>>)]
        IsOk(m) == m.status = "ok"
        IsError(m) == m.status = "error"
    IN SelectSeq(all, IsOk) \o SelectSeq(all, IsError)

\* for call in tool_calls: one tool-role message per call, lines 507-574
ResultMessages(calls, results, env) ==
    [i \in 1..Len(calls) |->
        IF calls[i].name \in results
        THEN ToolMessage(i, "ok",
                ResultChunks(calls[i].name, env,
                             RanIndex(calls, calls[i].name)))
        ELSE ToolMessage(i, "error", <<>>)]

ParallelDispatch(calls, selected_ids, env, chunks) ==
    IF AnalysisRaises(calls)
    THEN [chunks |-> chunks, messages |-> <<>>, outage |-> FALSE,
          payload |-> FALSE, ran |-> FALSE, raised |-> "AttributeError",
          parallel_failed |-> FALSE, retried |-> FALSE, handlers |-> {}]
    ELSE
    LET executions == analyze_dependencies(calls)
        plan == execute_plan(executions, selected_ids, env)
        results == {n \in DOMAIN plan.outcomes : plan.outcomes[n].ok}
        messages == ResultMessages(calls, results, env)
        RECURSIVE Collect(_, _)
        Collect(i, acc) ==
            IF i > Len(calls) THEN acc
            ELSE Collect(i + 1,
                         IF calls[i].name \in results
                         THEN ExtendChunks(acc,
                                ResultChunks(calls[i].name, env,
                                             RanIndex(calls, calls[i].name)))
                         ELSE acc)
    IN IF plan.raised # ""
       THEN [chunks |-> chunks, messages |-> <<>>, outage |-> FALSE,
             payload |-> FALSE,
             ran |-> \E n \in DOMAIN plan.outcomes : n \in ToolCallNames,
             raised |-> IF ParallelCatches(plan.raised) THEN ""
                        ELSE plan.raised,
             parallel_failed |-> TRUE,
             retried |-> FALSE,
             handlers |-> {}]
       ELSE [chunks |-> Collect(1, chunks),
             messages |-> messages,
             outage |-> \E n \in DOMAIN plan.outcomes :
                            "VectorSearchError" \in plan.outcomes[n].failures
                            \/ plan.outcomes[n].error = "VectorSearchError",
             payload |-> \E i \in 1..Len(calls) :
                            /\ calls[i].name \notin results
                            /\ plan.outcomes[calls[i].name].error =
                                   "VectorSearchError",
             ran |-> \E n \in DOMAIN plan.outcomes : n \in ToolCallNames,
             raised |-> "",
             parallel_failed |-> FALSE,
             retried |-> \E n \in DOMAIN plan.outcomes :
                            /\ "VectorSearchError" \in plan.outcomes[n].failures
                            /\ plan.outcomes[n].attempts > 1,
             handlers |-> DOMAIN plan.outcomes \cap ToolCallNames]

----------------------------------------------------------------------------
(* The tool loop: _run_tool_conversation, and run() around it *)

FinalContents == {"None", "text"}

\* What self._chat.chat(...) can do at agent.py:471, for the batches B
CompletionsWith(B) ==
    {[kind |-> "transport_error", content |-> "None", tool_calls |-> <<>>]}
    \cup {[kind |-> "final", content |-> c, tool_calls |-> <<>>] :
            c \in FinalContents}
    \cup {[kind |-> "tools", content |-> "None", tool_calls |-> b] : b \in B}

\* content = message.get("content") or ""
ContentOrEmpty(content) == IF content = "None" THEN "" ELSE content

\* number of entries of calls that name the tool
CountOf(calls, name) == Cardinality({i \in 1..Len(calls) : calls[i].name = name})

\* The backends while one batch is dispatched.  A successful search returns
\* one chunk while the turn's evidence has room for it, none afterwards.
\* the tools of a batch that some call of it can reach the backend of
BackendNames(calls, selected_ids) ==
    {calls[i].name : i \in
        {j \in 1..Len(calls) :
            ~ArgumentError([name |-> calls[j].name,
                            args |-> AnalysedArgs(calls[j].args)],
                           selected_ids)}}

Environments(calls, selected_ids, chunks) ==
    [fails : [BackendNames(calls, selected_ids) -> FailCounts],
     chunks : IF Len(chunks) + CountOf(calls, "search_user_documents")
                    <= MaxChunks
              THEN {1} ELSE {0}]

\* if enable_parallel and len(tool_calls) > 1
UsesParallel(calls, parallel) == parallel /\ Len(calls) > 1

\* the flag left as it was
FallBackIgnored(enabled, failed) == enabled

\* enable_parallel = False in the except at line 576
FallBack(enabled, failed) == enabled /\ ~failed

Dispatch(calls, parallel, selected_ids, env, chunks) ==
    IF UsesParallel(calls, parallel)
    THEN ParallelDispatch(calls, selected_ids, env, chunks)
    ELSE SequentialDispatch(calls, 1, selected_ids, env,
            [chunks |-> chunks, messages |-> <<>>,
             requests |-> [n \in NamesOf(calls) |-> 0],
             outage |-> FALSE, payload |-> FALSE, ran |-> FALSE,
             raised |-> "", parallel_failed |-> FALSE, retried |-> FALSE,
             handlers |-> {}])

\* ids of the calls of a batch whose arguments the registry rejects
ArgErrorIds(calls, selected_ids) ==
    {i \in 1..Len(calls) : ArgumentError(calls[i], selected_ids)}

\* evidence carried by the tool messages, in their order
RECURSIVE CarriedChunks(_)
CarriedChunks(messages) ==
    IF messages = <<>> THEN <<>>
    ELSE Head(messages).chunks \o CarriedChunks(Tail(messages))

\* except VectorSearchError at line 240
RunCatches(exc) == exc = "VectorSearchError"

\* the exception swallowed and what was gathered so far returned
LoopReturnsPartial(exc) ==
    /\ result' = AgentResult("", collected_chunks, scenario)
    /\ pc' = "done"
    /\ UNCHANGED raised

\* an exception leaves _run_tool_conversation
LoopRaises(exc) ==
    IF RunCatches(exc)
    THEN /\ result' = AgentResult("vector_search_unavailable", <<>>, scenario)
         /\ pc' = "done"
         /\ UNCHANGED raised
    ELSE /\ raised' = exc
         /\ pc' = "raised"
         /\ UNCHANGED result

\* one pass of "for iteration in range(max_iterations)", the completion
\* call answering with one of C
ToolLoopIterationOn(C) ==
    /\ pc = "tool_loop"
    /\ UNCHANGED besideTurn
    /\ iteration < max_iterations
    /\ \E response \in C :
        /\ chat_calls' = chat_calls + 1
        /\ iteration' = iteration + 1
        /\ CASE response.kind = "transport_error" ->
                    /\ LoopRaises("completion_error")
                    /\ UNCHANGED <<enable_parallel, collected_chunks,
                                   final_call, final_content, handler_ran,
                                   outage_seen, outage_payload,
                                   tool_messages, transcript_chunks,
                                   arg_error_unreported, outage_retried,
                                   requested_calls, parallel_raised,
                                   parallel_after_raise>>
             [] response.kind = "final" ->
                    /\ final_call' = chat_calls'
                    /\ final_content' = response.content
                    /\ result' = AgentResult(ContentOrEmpty(response.content),
                                             collected_chunks, scenario)
                    /\ pc' = "done"
                    /\ UNCHANGED <<raised, enable_parallel, collected_chunks,
                                   handler_ran, outage_seen, outage_payload,
                                   tool_messages, transcript_chunks,
                                   arg_error_unreported, outage_retried,
                                   requested_calls, parallel_raised,
                                   parallel_after_raise>>
             [] response.kind = "tools" ->
                    \E env \in Environments(response.tool_calls,
                                            selected_document_ids,
                                            collected_chunks) :
                    \E d \in {Dispatch(response.tool_calls, enable_parallel,
                                       selected_document_ids, env,
                                       collected_chunks)} :
                    LET rejected == ArgErrorIds(response.tool_calls,
                                                selected_document_ids)
                    IN  /\ collected_chunks' = d.chunks
                        /\ handler_ran' = (handler_ran \/ d.ran)
                        /\ outage_seen' = (outage_seen \/ d.outage)
                        /\ outage_payload' = (outage_payload \/ d.payload)
                        /\ outage_retried' = (outage_retried \/ d.retried)
                        /\ requested_calls' = Len(response.tool_calls)
                        /\ enable_parallel' =
                               FallBack(enable_parallel, d.parallel_failed)
                        /\ parallel_raised' =
                               (parallel_raised \/ d.parallel_failed)
                        /\ parallel_after_raise' =
                               (parallel_after_raise \/
                                (parallel_raised /\
                                 UsesParallel(response.tool_calls,
                                              enable_parallel)))
                        /\ tool_messages' =
                               [k \in 1..Len(d.messages) |-> d.messages[k].id]
                        /\ transcript_chunks' =
                               transcript_chunks \o CarriedChunks(d.messages)
                        /\ arg_error_unreported' =
                               (arg_error_unreported \/
                                \E i \in rejected :
                                    \A k \in 1..Len(d.messages) :
                                        \/ d.messages[k].id # i
                                        \/ d.messages[k].status # "error")
                        /\ IF d.raised # ""
                           THEN LoopRaises(d.raised)
                           ELSE UNCHANGED <<pc, result, raised>>
                        /\ UNCHANGED <<final_call, final_content>>
    /\ UNCHANGED <<query, history, selected_document_ids, reply, decision,
                   scenario, allowed_tools, tools_computed, path,
                   debug_total_length>>

\* raise RuntimeError("tool loop exceeded maximum iterations")
ToolLoopExhausted ==
    /\ pc = "tool_loop"
    /\ UNCHANGED besideTurn
    /\ iteration = max_iterations
    /\ LoopRaises("tool_loop_exceeded")
    /\ UNCHANGED <<query, history, selected_document_ids, reply, decision,
                   scenario, allowed_tools, tools_computed, path,
                   debug_total_length>>
    /\ UNCHANGED loopVars

----------------------------------------------------------------------------
(* One turn of run(): every kind of reply, single tool calls *)

TurnQueries == {<<>>, <<"ws">>, <<"txt">>, <<"Naidi", "txt">>}
TurnHistories == {<<>>, <<"user", "assistant">>}
TurnSelections == {{}, {1}}

TurnReplies ==
    {TransportError, Malformed} \cup
    JsonReplies({Num(n) : n \in {1, 2, 3, 4, 5, 7}},
                {Num(5), Num(6)},
                {<<>>, <<1>>},
                {"None"},
                {"None", "small_talk", "cbr_rate", "hybrid_kb_docs"})

TurnCompletions == CompletionsWith({<<c>> : c \in ToolCalls})

Init == InitInputs(TurnQueries, TurnHistories, TurnSelections)

ChooseScenario == ChooseScenarioOn(TurnReplies)

ToolLoopIteration == ToolLoopIterationOn(TurnCompletions)

Next ==
    \/ ChooseScenario
    \/ RunAfterDecision
    \/ AskClarification
    \/ ToolLoopIteration
    \/ ToolLoopExhausted

Spec == Init /\ [][Next]_vars

----------------------------------------------------------------------------
(* The tool loop of a turn: few replies, every batch *)

LoopReplies ==
    JsonReplies({Num(n) : n \in {1, 5}}, {Num(6)}, {<<>>}, {"None"},
                {"None"})

\* no document selected, or one
LoopSelections == {{}, {1}}

InitLoop == InitInputs({<<"txt">>}, {<<>>}, LoopSelections)

ChooseScenarioLoop == ChooseScenarioOn(LoopReplies)

ToolLoopBatch == ToolLoopIterationOn(CompletionsWith(Batches))

NextLoop ==
    \/ ChooseScenarioLoop
    \/ RunAfterDecision
    \/ AskClarification
    \/ ToolLoopBatch
    \/ ToolLoopExhausted

SpecLoop == InitLoop /\ [][NextLoop]_vars

----------------------------------------------------------------------------
(* The tool loop on tool calls the registry may reject *)

\* calls with any name and any arguments string
ArgCalls ==
    ToolCallsOf(ToolCallNames \cup {"unknown_tool"}, ArgKinds)
    \cup ToolCallsOf({"unhashable_name"}, {"given"})

ArgBatches == UNION {[1..k -> ArgCalls] : k \in 1..MaxBatch}

ToolLoopArgs == ToolLoopIterationOn(CompletionsWith(ArgBatches))

NextArgs ==
    \/ ChooseScenarioLoop
    \/ RunAfterDecision
    \/ AskClarification
    \/ ToolLoopArgs
    \/ ToolLoopExhausted

SpecArgs == InitLoop /\ [][NextArgs]_vars

----------------------------------------------------------------------------
(* The tool loop on batches the parallel executor may raise on *)

FallbackCalls ==
    ToolCallsOf(ToolCallNames \cup {"unhashable_name"}, {"given"})

FallbackBatches == UNION {[1..k -> FallbackCalls] : k \in 1..MaxBatch}

ToolLoopFallback == ToolLoopIterationOn(CompletionsWith(FallbackBatches))

NextFallback ==
    \/ ChooseScenarioLoop
    \/ RunAfterDecision
    \/ AskClarification
    \/ ToolLoopFallback
    \/ ToolLoopExhausted

SpecFallback == InitLoop /\ [][NextFallback]_vars

----------------------------------------------------------------------------
(* Routing of a turn: every scenario number and every intent *)

RouteIntents ==
    {"None", "small_talk", "off_topic", "cbr_rate", "finance_news",
     "knowledge_base", "hybrid_kb_docs", "document_search"}

RouteReplies ==
    JsonReplies({Num(n) : n \in 0..6}, {Num(6)}, {<<>>}, {"None"},
                RouteIntents)

InitRoute == InitInputs({<<"txt">>}, {<<>>}, TurnSelections)

ChooseScenarioRoute == ChooseScenarioOn(RouteReplies)

NextRoute ==
    \/ ChooseScenarioRoute
    \/ RunAfterDecision
    \/ AskClarification

SpecRoute == InitRoute /\ [][NextRoute]_vars

----------------------------------------------------------------------------
(* ParallelToolExecutor.execute_plan, step by step, on any plan.  The tasks
   of a wave run concurrently: their attempts interleave in any order. *)

DepSets == {{}, {"A"}, {"B"}, {"C"}}

PlanExecutions == [tool_name : PlanNames, depends_on : DepSets]

Plans == UNION {[1..k -> PlanExecutions] : k \in 0..MaxPlan}

\* index in the plan of the execution the dict pending holds for a name
PendingIndex(plan, n) ==
    CHOOSE i \in 1..Len(plan) :
        /\ plan[i].tool_name = n
        /\ \A j \in (i + 1)..Len(plan) : plan[j].tool_name # n

\* the dependencies not looked at
ReadyAlways(depends_on, done) == TRUE

\* any(...) in place of all(...)
ReadyIfAnyDep(depends_on, done) == depends_on \cap done # {}

\* all(dep in completed for dep in ex.depends_on)
ReadyIf(depends_on, done) == depends_on \subseteq done

\* completed.add(tool_name) for the successful tasks only
CompletedOnlySucceeded(done, gathered, succeeded) == done \cup succeeded

\* completed.add(tool_name): for every task of the wave, failed or not
CompletedAfter(done, gathered, succeeded) == done \cup gathered

\* one attempt too many
RetryAttemptsOneMore == 0..(max_retries + 1)

\* for attempt in range(self._max_retries + 1)
RetryAttempts == 0..max_retries

\* the same delay after every failure
BackoffConstant(attempt) == 1

\* backoff = 2**attempt
Backoff(attempt) == 2 ^ attempt

\* the executions of a wave left in pending
StillPendingAll(pend, gathered) == pend

\* del pending[tool_name] for every task of the wave
StillPending(pend, gathered) == pend \ gathered

\* The head of "while pending": return, raise, or start the next wave.
SelectWave(pend, done) ==
    /\ ep_pending' = pend
    /\ ep_completed' = done
    /\ IF pend = {}
       THEN /\ plan_pc' = "returned"
            /\ wave' = {}
            /\ UNCHANGED waves_run
       ELSE LET held == PendingOf(ep_executions)
                ready == {n \in pend : ReadyIf(held[n].depends_on, done)}
            IN IF ready = {}
               THEN /\ plan_pc' = "raised"
                    /\ wave' = {}
                    /\ UNCHANGED waves_run
               ELSE /\ plan_pc' = "gathering"
                    /\ wave' = ready
                    /\ waves_run' = waves_run + 1

\* execute_plan is called: lines 46-87
ExecutePlanCall ==
    /\ plan_pc = "idle"
    /\ SelectWave(DOMAIN PendingOf(ep_executions), {})
    /\ UNCHANGED <<ep_executions, ep_results, task, exec_result, exec_error>>
    /\ UNCHANGED besidePlan

\* one pass of the loop of _execute_with_retry for the task of n: the
\* handler is invoked and returns or raises; after a failure that is not
\* the last one the task sleeps for the backoff
ExecuteAttempt(n) ==
    /\ plan_pc = "gathering"
    /\ n \in wave
    /\ task[n].status \in {"idle", "retrying"}
    /\ task[n].attempts \in RetryAttempts
    /\ \E ok \in BOOLEAN :
        LET attempt == task[n].attempts
            t == task[n]
        IN task' = [task EXCEPT ![n] =
            IF ok
            THEN [t EXCEPT !.status = "returned", !.attempts = attempt + 1]
            ELSE [status |-> IF attempt + 1 \in RetryAttempts
                             THEN "retrying" ELSE "raised",
                  attempts |-> attempt + 1,
                  failures |-> t.failures + 1,
                  delays |-> IF attempt < max_retries
                             THEN Append(t.delays, Backoff(attempt))
                             ELSE t.delays,
                  last_error |-> attempt]]
    /\ UNCHANGED <<ep_executions, plan_pc, ep_pending, ep_completed,
                   ep_results, wave, exec_result, exec_error, waves_run>>
    /\ UNCHANGED besidePlan

\* asyncio.gather returns: lines 89-113, then the head of the loop again
ExecuteWaveDone ==
    /\ plan_pc = "gathering"
    /\ \A n \in wave : task[n].status \in {"returned", "raised"}
    /\ LET succeeded == {n \in wave : task[n].status = "returned"}
           failed == wave \ succeeded
       IN /\ ep_results' = ep_results \cup succeeded
          /\ exec_result' = exec_result \cup
                {PendingIndex(ep_executions, n) : n \in succeeded}
          /\ exec_error' = exec_error \cup
                {PendingIndex(ep_executions, n) : n \in failed}
          /\ SelectWave(StillPending(ep_pending, wave),
                        CompletedAfter(ep_completed, wave, succeeded))
    /\ UNCHANGED <<ep_executions, task>>
    /\ UNCHANGED besidePlan

InitPlan ==
    /\ TurnStart({<<>>}, {<<>>}, {{}})
    /\ ExecutorIdle(Plans)
    /\ FunctionsIdle
    /\ ClientsIdle

NextPlan ==
    \/ ExecutePlanCall
    \/ \E n \in PlanNames : ExecuteAttempt(n)
    \/ ExecuteWaveDone

SpecPlan == InitPlan /\ [][NextPlan]_vars

\* every handler invocation terminates and the event loop runs every task
\* that can run
SpecPlanFair == SpecPlan /\ WF_vars(NextPlan)

----------------------------------------------------------------------------
(* FusionPlan and FusionPlanner.plan: fusion_planner.py *)

MaxItems == 1           \* entries of a refinements or subqueries value

\* the texts of a plan: empty, blank, and texts with and without blanks
\* around them
PlanTexts == {<<>>, <<"ws">>, <<"a">>, <<"ws", "a">>, <<"b">>}

PlanLists == SeqsUpTo(PlanTexts, MaxItems)

\* str.strip()
RECURSIVE Strip(_)
Strip(t) ==
    IF t = <<>> THEN <<>>
    ELSE IF Head(t) = "ws" THEN Strip(Tail(t))
    ELSE IF t[Len(t)] = "ws" THEN Strip(SubSeq(t, 1, Len(t) - 1))
    ELSE t

\* item in uniq
Member(item, list) == \E i \in 1..Len(list) : list[i] = item

\* the value of a key of the planner's JSON object: absent or of another
\* type, a string, or a list of strings
JsonValues ==
    {[k |-> "absent", v |-> <<>>]}
    \cup {[k |-> "str", v |-> t] : t \in PlanTexts}
    \cup {[k |-> "list", v |-> l] : l \in PlanLists}

\* the planner outcomes that cannot be parsed into a plan: the completion
\* call raises, the content is text that is not JSON, the content is JSON
\* that is not an object, the content is null
UnparsedKinds == {"transport_error", "malformed", "not_object", "null_content"}

\* what the planner's completion call can do: one of the outcomes above, or
\* content that is a JSON object
PlannerResponses ==
    {[kind |-> k, refinements |-> [k |-> "absent", v |-> <<>>],
      subqueries |-> [k |-> "absent", v |-> <<>>]] : k \in UnparsedKinds}
    \cup {[kind |-> "json", refinements |-> r, subqueries |-> q] :
            r \in JsonValues, q \in JsonValues}

RECURSIVE StripNonBlank(_)
StripNonBlank(list) ==
    IF list = <<>> THEN <<>>
    ELSE IF IsBlank(Head(list)) THEN StripNonBlank(Tail(list))
    ELSE <<Strip(Head(list))>> \o StripNonBlank(Tail(list))

_ensure_list(value) ==
    IF value.k = "list" THEN StripNonBlank(value.v)
    ELSE IF value.k = "str" /\ ~IsBlank(value.v) THEN <<Strip(value.v)>>
    ELSE <<>>

FusionPlan(base_query, refinements, subqueries) ==
    [base_query |-> base_query, refinements |-> refinements,
     subqueries |-> subqueries]

\* FusionPlanner.plan: the completion call's exception propagates; text
\* that is not JSON is read as the empty object; json.loads(None) raises
\* TypeError and .get on a value that is not an object raises
\* AttributeError, neither of which plan catches
FusionPlanner_plan(q, response) ==
    CASE response.kind = "transport_error" ->
           [raised |-> "OpenRouterError", plan |-> <<>>]
      [] response.kind = "null_content" ->
           [raised |-> "TypeError", plan |-> <<>>]
      [] response.kind = "not_object" ->
           [raised |-> "AttributeError", plan |-> <<>>]
      [] response.kind = "malformed" ->
           [raised |-> "none", plan |-> FusionPlan(q, <<>>, <<>>)]
      [] OTHER ->
           [raised |-> "none",
            plan |-> FusionPlan(q, _ensure_list(response.refinements),
                                _ensure_list(response.subqueries))]

\* the plan left without its base query when the planner raises
GenerateWithoutFallback(q, response) ==
    IF FusionPlanner_plan(q, response).raised # "none"
    THEN FusionPlan(<<>>, <<>>, <<>>)
    ELSE FusionPlanner_plan(q, response).plan

\* RagAgent._generate_fusion_plan: the planner's plan, or the fallback
\* plan of the query alone when the planner raises
_generate_fusion_plan(q, response) ==
    IF FusionPlanner_plan(q, response).raised # "none"
    THEN FusionPlan(q, <<>>, <<>>)
    ELSE FusionPlanner_plan(q, response).plan

RECURSIVE Uniq(_, _)
Uniq(items, uniq) ==
    IF items = <<>> THEN uniq
    ELSE Uniq(Tail(items),
              IF ~IsBlank(Head(items)) /\ ~Member(Head(items), uniq)
              THEN Append(uniq, Strip(Head(items)))
              ELSE uniq)

\* the base query left out
ExpansionsWithoutBase(plan) == Uniq(plan.refinements \o plan.subqueries, <<>>)

\* FusionPlan.expansions
expansions(plan) ==
    Uniq(<<plan.base_query>> \o plan.refinements \o plan.subqueries, <<>>)

\* the plans a caller can construct directly
FusionPlans ==
    {FusionPlan(q, r, u) : q \in PlanTexts, r \in PlanLists, u \in PlanLists}

InitFusion ==
    /\ TurnStart({<<>>}, {<<>>}, {{}})
    /\ ExecutorIdle({<<>>})
    /\ ClientsIdle
    /\ \/ /\ fn_pc = "plan"
          /\ fn_args \in {[query |-> q, response |-> r] :
                            q \in PlanTexts, r \in PlannerResponses}
          /\ fn_ret = <<>>
       \/ /\ fn_pc = "planned"
          /\ fn_args = <<>>
          /\ fn_ret \in FusionPlans

\* plan = await self._generate_fusion_plan(...)
GenerateFusionPlan ==
    /\ fn_pc = "plan"
    /\ fn_ret' = _generate_fusion_plan(fn_args.query, fn_args.response)
    /\ fn_pc' = "planned"
    /\ UNCHANGED <<fn_args, besideFn>>

\* expansions = plan.expansions
ReadExpansions ==
    /\ fn_pc = "planned"
    /\ fn_ret' = [plan |-> fn_ret, expansions |-> expansions(fn_ret)]
    /\ fn_pc' = "expanded"
    /\ UNCHANGED <<fn_args, besideFn>>

\* the queries handed to the vector search by _search_with_expansion: the
\* query as given when there is no expansion, else one per expansion
SearchQueries(q, exps) == IF exps = <<>> THEN <<q>> ELSE exps

\* the rest of _search_with_expansion: the retrieval calls
SearchExpansions ==
    /\ fn_pc = "expanded"
    /\ fn_ret' = [plan |-> fn_ret.plan, expansions |-> fn_ret.expansions,
                  queries |-> SearchQueries(fn_ret.plan.base_query,
                                            fn_ret.expansions)]
    /\ fn_pc' = "searched"
    /\ UNCHANGED <<fn_args, besideFn>>

NextFusion == GenerateFusionPlan \/ ReadExpansions \/ SearchExpansions

SpecFusion == InitFusion /\ [][NextFusion]_vars

----------------------------------------------------------------------------
(* Reciprocal rank fusion: RagAgent._rrf_merge, agent.py lines 1051-1087 *)

MaxLists == 3           \* result lists handed to one merge
MaxLimit == 2           \* the limit of a merge

rrf_k == 60

ChunkIds == {1, 2, 3}
RawScores == {1, 2}

\* One VectorSearchResult of a result list: its chunk id and its raw
\* similarity score.  Chunk 1 is found with either score, the others with
\* the lower one.
MergeItems ==
    {i \in [cid : ChunkIds, score : RawScores] : i.cid = 1 \/ i.score = 1}

\* the result list of one retrieval call: no chunk twice
RankedLists ==
    {<<>>} \cup {<<a>> : a \in MergeItems}
    \cup {l \in [1..2 -> MergeItems] : l[1].cid # l[2].cid}

ResultsByQuery == SeqsUpTo(RankedLists, MaxLists)

\* Scores are kept exact as multiples of 1 / RrfScale.
RrfScale == (rrf_k + 1) * (rrf_k + 2)

\* 1.0 / (k + rank)
RankContribution(rank) == RrfScale \div (rrf_k + rank)

\* every result of every list in the order the loops at lines 1064-1065
\* visit them, with the list it comes from and its rank
RECURSIVE Occurrences(_, _)
Occurrences(results_by_query, n) ==
    IF n > Len(results_by_query) THEN <<>>
    ELSE [i \in 1..Len(results_by_query[n]) |->
             [cid |-> results_by_query[n][i].cid,
              score |-> results_by_query[n][i].score,
              list |-> n, rank |-> i]]
         \o Occurrences(results_by_query, n + 1)

\* the instance seen first kept, whatever its score
BestIsFirst(best, res) == FALSE

\* res.score > best_result_for_chunk[cid].score
BestReplaced(best, res) == res.score > best.score

\* the loops at lines 1064-1077: the dicts fused_scores and
\* best_result_for_chunk and the insertion order of their keys
RECURSIVE Accumulate(_, _)
Accumulate(occ, acc) ==
    IF occ = <<>> THEN acc
    ELSE
    LET res == Head(occ)
        seen == res.cid \in DOMAIN acc.fused_scores
        score_sum == (IF seen THEN acc.fused_scores[res.cid] ELSE 0)
                     + RankContribution(res.rank)
        keep == seen /\ ~BestReplaced(acc.best[res.cid], res)
    IN Accumulate(Tail(occ),
         [keys |-> IF seen THEN acc.keys ELSE Append(acc.keys, res.cid),
          fused_scores |->
             [c \in DOMAIN acc.fused_scores \cup {res.cid} |->
                 IF c = res.cid THEN score_sum ELSE acc.fused_scores[c]],
          best |->
             [c \in DOMAIN acc.best \cup {res.cid} |->
                 IF c = res.cid /\ ~keep THEN res ELSE acc.best[c]]])

\* the list left in the order of the keys
SortNothing(fused) == fused

\* fused.sort(key=lambda x: x[1], reverse=True): stable, equal scores keep
\* their order
RECURSIVE SortDescending(_)
SortDescending(fused) ==
    IF fused = <<>> THEN <<>>
    ELSE
    LET rest == SortDescending(SubSeq(fused, 1, Len(fused) - 1))
        x == fused[Len(fused)]
        before == Cardinality({i \in 1..Len(rest) : rest[i].score >= x.score})
    IN SubSeq(rest, 1, before) \o <<x>> \o SubSeq(rest, before + 1, Len(rest))

\* the whole list whatever the limit
TruncateNothing(fused, limit) == fused

\* fused[:limit]
Truncate(fused, limit) == SubSeq(fused, 1, Min(limit, Len(fused)))

_rrf_merge(results_by_query, limit) ==
    LET acc == Accumulate(Occurrences(results_by_query, 1),
                          [keys |-> <<>>, fused_scores |-> <<>>,
                           best |-> <<>>])
        fused == [i \in 1..Len(acc.keys) |->
                     [cid |-> acc.keys[i],
                      score |-> acc.fused_scores[acc.keys[i]],
                      res |-> acc.best[acc.keys[i]]]]
        top == Truncate(SortDescending(fused), limit)
    IN [top_results |-> [i \in 1..Len(top) |-> top[i].res],
        fused_scores |-> acc.fused_scores]

InitMerge ==
    /\ TurnStart({<<>>}, {<<>>}, {{}})
    /\ ExecutorIdle({<<>>})
    /\ ClientsIdle
    /\ fn_pc = "merge"
    /\ fn_args \in [results_by_query : ResultsByQuery, limit : 0..MaxLimit]
    /\ fn_ret = <<>>

\* fused = self._rrf_merge(...)
RrfMerge ==
    /\ fn_pc = "merge"
    /\ fn_ret' = _rrf_merge(fn_args.results_by_query, fn_args.limit)
    /\ fn_pc' = "merged"
    /\ UNCHANGED <<fn_args, besideFn>>

NextMerge == RrfMerge

SpecMerge == InitMerge /\ [][NextMerge]_vars

----------------------------------------------------------------------------
(* TokenAwareContextManager.build_optimal_context: context_manager.py.  A  *)
(* text is modelled by its length in characters; a chunk weight is in      *)
(* tenths, and for the weights 0.4 and 0.6 the program uses, the float     *)
(* products int(remaining * weight) are the exact integer quotients.       *)

MaxEvidence == 4        \* chunks handed to build_optimal_context

reserved_for_output == 4000
reserved_for_system == 2000
chars_per_token == 4
message_overhead == 4
max_chunk_tokens == 500
chunk_overhead == 20
min_chunks == 3
header_chars == 31      \* "=== ... ===\n"
fragment_chars == 28    \* "## ... i [title]\n" and "\n" around the content

\* max_tokens of the manager: one that leaves 5000 tokens, and the default
MaxTokensValues == {11000, 180000}

ChunkWeights == {4, 6}

\* lengths of the system prompt: none, 996 tokens, 4750 tokens, and more
\* than 5000 tokens
PromptChars == {0, 3984, 19000, 24000}
QueryChars == {0, 3}

\* lengths of a chunk's content: 100 tokens, 470 tokens, 1000 tokens
ContentChars == {400, 1880, 4000}

EvidenceLists == SeqsUpTo(ContentChars, MaxEvidence)

HistoryMessages == [role : {"system", "user"}, chars : {0, 4000}]

ContextHistories == SeqsUpTo(HistoryMessages, MaxHistory)

Max(a, b) == IF a > b THEN a ELSE b

estimate_tokens(chars) == chars \div chars_per_token

RECURSIVE estimate_messages_tokens(_)
estimate_messages_tokens(messages) ==
    IF messages = <<>> THEN 0
    ELSE message_overhead + estimate_tokens(Head(messages).chars)
         + estimate_messages_tokens(Tail(messages))

\* content[:target_chars] + "..."
TruncatedChars == (max_chunk_tokens * chars_per_token * 9) \div 10 + 3

\* optimize_chunks: the chunks in their order, the long ones cut
optimize_chunks(chunks) ==
    [i \in 1..Len(chunks) |->
        [id |-> i,
         chars |-> IF estimate_tokens(chunks[i]) <= max_chunk_tokens
                   THEN chunks[i] ELSE TruncatedChars]]

RECURSIVE ChunksTokens(_)
ChunksTokens(chunks) ==
    IF chunks = <<>> THEN 0
    ELSE estimate_tokens(Head(chunks).chars) + chunk_overhead
         + ChunksTokens(Tail(chunks))

\* chunks are dropped while they exceed the budget, however few remain
DropWhileOverBudget(tokens, budget, count) == tokens > budget

\* while chunks_tokens > chunk_budget and len(optimized_chunks) > 3
DropCondition(tokens, budget, count) ==
    tokens > budget /\ count > min_chunks

RECURSIVE DropToBudget(_, _)
DropToBudget(chunks, budget) ==
    IF DropCondition(ChunksTokens(chunks), budget, Len(chunks))
    THEN DropToBudget(SubSeq(chunks, 1, Len(chunks) - 1), budget)
    ELSE chunks

\* the messages of a role, in their order
OfRole(messages, system) ==
    LET Wanted(m) == (m.role = "system") = system
    IN SelectSeq(messages, Wanted)

\* a message that does not fit skipped, the older ones still tried
RECURSIVE KeepFitting(_, _, _)
KeepFitting(others, available, kept) ==
    IF others = <<>> THEN kept
    ELSE LET msg == others[Len(others)]
             msg_tokens == estimate_tokens(msg.chars) + message_overhead
             older == SubSeq(others, 1, Len(others) - 1)
         IN IF estimate_messages_tokens(kept) + msg_tokens > available
            THEN KeepFitting(older, available, kept)
            ELSE KeepFitting(older, available, <<msg>> \o kept)

\* the loop at lines 105-110: the longest tail of the messages that fits
RECURSIVE KeepRecent(_, _, _)
KeepRecent(others, available, kept) ==
    IF others = <<>> THEN kept
    ELSE LET msg == others[Len(others)]
             msg_tokens == estimate_tokens(msg.chars) + message_overhead
         IN IF estimate_messages_tokens(kept) + msg_tokens > available
            THEN kept
            ELSE KeepRecent(SubSeq(others, 1, Len(others) - 1), available,
                            <<msg>> \o kept)

truncate_to_budget(messages, budget) ==
    IF messages = <<>> THEN <<>>
    ELSE LET system_msgs == OfRole(messages, TRUE)
             available == Max(0, budget - estimate_messages_tokens(system_msgs))
         IN IF available <= 0 THEN system_msgs
            ELSE system_msgs \o KeepRecent(OfRole(messages, FALSE),
                                           available, <<>>)

\* len(self._format_chunks_context(chunks))
RECURSIVE FormattedChars(_)
FormattedChars(chunks) ==
    IF chunks = <<>> THEN header_chars
    ELSE FormattedChars(SubSeq(chunks, 1, Len(chunks) - 1))
         + 1 + fragment_chars + chunks[Len(chunks)].chars

\* the budget left taken without the floor of 0
RemainingUnclamped(available, base_tokens) == available - base_tokens

\* remaining = max(0, self._available - base_tokens)
Remaining(available, base_tokens) == Max(0, available - base_tokens)

build_optimal_context(a) ==
    LET available == a.max_tokens - reserved_for_output - reserved_for_system
        base_tokens == estimate_tokens(a.system_prompt)
                       + estimate_tokens(a.guidance)
                       + estimate_tokens(a.user_query) + message_overhead
        remaining == Remaining(available, base_tokens)
        chunk_budget == (remaining * a.chunk_weight) \div 10
        history_budget == (remaining * (10 - a.chunk_weight)) \div 10
        optimized_chunks ==
            DropToBudget(optimize_chunks(a.chunks), chunk_budget)
        optimized_history == truncate_to_budget(a.history, history_budget)
        user_chars == IF optimized_chunks # <<>>
                      THEN FormattedChars(optimized_chunks) + 2 + a.user_query
                      ELSE a.user_query
        messages == <<[role |-> "system", chars |-> a.system_prompt],
                      [role |-> "system", chars |-> a.guidance]>>
                    \o optimized_history
                    \o <<[role |-> "user", chars |-> user_chars]>>
    IN [messages |-> messages,
        chunks |-> optimized_chunks,
        stats |-> [total_budget |-> available,
                   base_tokens |-> base_tokens,
                   remaining |-> remaining,
                   chunk_budget |-> chunk_budget,
                   history_budget |-> history_budget,
                   chunks_tokens |-> ChunksTokens(optimized_chunks),
                   total_tokens |-> estimate_messages_tokens(messages)]]

InitContext ==
    /\ TurnStart({<<>>}, {<<>>}, {{}})
    /\ ExecutorIdle({<<>>})
    /\ ClientsIdle
    /\ fn_pc = "build"
    /\ fn_args \in [max_tokens : MaxTokensValues, system_prompt : PromptChars,
                    guidance : {0}, user_query : QueryChars,
                    history : ContextHistories, chunks : EvidenceLists,
                    chunk_weight : ChunkWeights]
    /\ fn_ret = <<>>

\* messages, stats = self._context_manager.build_optimal_context(...)
BuildOptimalContext ==
    /\ fn_pc = "build"
    /\ fn_ret' = build_optimal_context(fn_args)
    /\ fn_pc' = "built"
    /\ UNCHANGED <<fn_args, besideFn>>

NextContext == BuildOptimalContext

SpecContext == InitContext /\ [][NextContext]_vars

----------------------------------------------------------------------------
(* TokenAwareContextManager.truncate_to_budget on a history of several      *)
(* messages                                                                 *)

MaxMessages == 3        \* messages handed to truncate_to_budget

TruncateMessages == SeqsUpTo(HistoryMessages, MaxMessages)

\* budgets in tokens: none, one short message, three, one long message and
\* a short one, two long messages and more
TruncateBudgets == {0, 4, 12, 1008, 2500}

InitTruncate ==
    /\ TurnStart({<<>>}, {<<>>}, {{}})
    /\ ExecutorIdle({<<>>})
    /\ ClientsIdle
    /\ fn_pc = "truncate"
    /\ fn_args \in [messages : TruncateMessages, budget : TruncateBudgets]
    /\ fn_ret = <<>>

\* optimized_history = self.truncate_to_budget(history, history_budget)
TruncateToBudget ==
    /\ fn_pc = "truncate"
    /\ fn_ret' = truncate_to_budget(fn_args.messages, fn_args.budget)
    /\ fn_pc' = "truncated"
    /\ UNCHANGED <<fn_args, besideFn>>

NextTruncate == TruncateToBudget

SpecTruncate == InitTruncate /\ [][NextTruncate]_vars

----------------------------------------------------------------------------
(* CentralBankClient.fetch and TavilyClient.search: external_clients.py.   *)
(* The coroutines of one client share its cache; each runs from call to    *)
(* await and from await to return without interruption.  The data a        *)
(* request returns is named by the number of the request, the stub built   *)
(* after a failed request by its negative.                                 *)

NumCallers == 2         \* coroutines calling the client at the same time
MaxFetches == 2         \* requests sent to the remote API
MaxClock == 1           \* the clock runs to MaxClock * tavily_cache_ttl

cbr_cache_ttl == 900
tavily_cache_ttl == 300

Clients == {"cbr", "tavily"}
CacheKeys == {"k1", "k2"}
Callers == 1..NumCallers
Times == {tavily_cache_ttl * t : t \in 0..MaxClock}

TtlOf(cl) == IF cl = "cbr" THEN cbr_cache_ttl ELSE tavily_cache_ttl

\* self._cache.get(cache_key) is None
NoEntry == [value |-> 0, expires_at |-> 0]

NoResponse == [status |-> "none", value |-> 0, cached |-> FALSE]

\* read_at is the time of the lookup that served a call from the cache
IdleFetch ==
    [pc |-> "idle", key |-> "none", request |-> 0, read_at |-> 0,
     response |-> NoResponse]

\* an entry is served however old it is
CacheHitIgnoringExpiry(entry, t) == entry # NoEntry

\* cached and cached.expires_at > _now_ts()
CacheHit(entry, t) == entry # NoEntry /\ entry.expires_at > t

InitCache ==
    /\ TurnStart({<<>>}, {<<>>}, {{}})
    /\ ExecutorIdle({<<>>})
    /\ FunctionsIdle
    /\ client \in Clients
    /\ now = 0
    /\ cache = [k \in CacheKeys |-> NoEntry]
    /\ fetches = [c \in Callers |-> IdleFetch]
    /\ issued = 0
    /\ stored = {}

\* fetch/search is called: the cache lookup, and on a miss the request
\* sent, up to the await
FetchStart(c) ==
    /\ client # "none"
    /\ fetches[c].pc \in {"idle", "returned"}
    /\ \E key \in CacheKeys :
        IF CacheHit(cache[key], now)
        THEN /\ fetches' = [fetches EXCEPT ![c] =
                    [pc |-> "returned", key |-> key, request |-> 0,
                     read_at |-> now,
                     response |-> [status |-> "ok",
                                   value |-> cache[key].value,
                                   cached |-> TRUE]]]
             /\ UNCHANGED issued
        ELSE /\ issued < MaxFetches
             /\ issued' = issued + 1
             /\ fetches' = [fetches EXCEPT ![c] =
                    [pc |-> "awaiting", key |-> key, request |-> issued + 1,
                     read_at |-> 0, response |-> NoResponse]]
    /\ UNCHANGED <<client, now, cache, stored, besideCache>>

\* the await of _call_api ends, with data or with an exception: the entry
\* written and the response returned
ApiReturns(c) ==
    /\ fetches[c].pc = "awaiting"
    /\ \E ok \in BOOLEAN :
        LET f == fetches[c]
            data == IF ok THEN f.request ELSE 0 - f.request
        IN IF ~ok /\ client = "tavily"
           THEN /\ fetches' = [fetches EXCEPT ![c] =
                      [f EXCEPT !.pc = "returned",
                                !.response = [status |-> "stub",
                                              value |-> data,
                                              cached |-> FALSE]]]
                /\ UNCHANGED <<cache, stored>>
           ELSE /\ cache' = [cache EXCEPT ![f.key] =
                      [value |-> data, expires_at |-> now + TtlOf(client)]]
                /\ stored' = stored \cup
                      {[key |-> f.key, value |-> data, stored_at |-> now,
                        expires_at |-> now + TtlOf(client)]}
                /\ fetches' = [fetches EXCEPT ![c] =
                      [f EXCEPT !.pc = "returned",
                                !.response = [status |-> "ok",
                                              value |-> data,
                                              cached |-> FALSE]]]
    /\ UNCHANGED <<client, now, issued, besideCache>>

\* time passes
Tick ==
    /\ client # "none"
    /\ \E t \in Times : t > now /\ now' = t
    /\ UNCHANGED <<client, cache, fetches, issued, stored, besideCache>>

NextCache ==
    \/ \E c \in Callers : FetchStart(c)
    \/ \E c \in Callers : ApiReturns(c)
    \/ Tick

SpecCache == InitCache /\ [][NextCache]_vars

----------------------------------------------------------------------------
(* One batch of tool calls of _run_tool_conversation(allowed_tools, ...):    *)
(* several calls on the parallel path, the dependency analysis first and    *)
(* then the executor and the tool messages (agent.py 489-574); one call on  *)
(* the sequential path (agent.py 583-632)                                   *)

\* calls of the registered tools with any arguments string
BatchCalls == ToolCallsOf(ToolCallNames, ArgKinds)

AnyBatches == UNION {[1..k -> BatchCalls] : k \in 1..MaxBatch}

\* allowed_tools of a turn of scenario 1 or 4, of scenario 3, and of
\* scenario 2 with the hybrid intent
AllowedLists ==
    {_tools_for_scenario(1, "None"), _tools_for_scenario(3, "None"),
     _tools_for_scenario(2, "hybrid_kb_docs")}

BatchArgs ==
    UNION {[calls : {b}, selected_ids : {s},
            env : Environments(b, s, <<>>),
            allowed_tools : AllowedLists] :
                b \in AnyBatches, s \in LoopSelections}

\* the executions whose handlers execute_plan invokes: those the dict
\* pending holds
ExecutedIndexes(calls) == {RanIndex(calls, n) : n \in NamesOf(calls)}

\* the execution whose outcome the tool message of call i reports:
\* results[name]
AnsweredBy(calls, i) == RanIndex(calls, calls[i].name)

InitBatch ==
    /\ TurnStart({<<>>}, {<<>>}, {{}})
    /\ ExecutorIdle({<<>>})
    /\ ClientsIdle
    /\ fn_pc = "batch"
    /\ fn_args \in BatchArgs
    /\ fn_ret = <<>>

\* executions = self._parallel_executor.analyze_dependencies(tool_calls)
AnalyzeBatch ==
    /\ fn_pc = "batch"
    /\ Len(fn_args.calls) > 1
    /\ fn_pc' = "analyzed"
    /\ fn_ret' = IF AnalysisRaises(fn_args.calls)
                 THEN [raised |-> "AttributeError", executions |-> <<>>]
                 ELSE [raised |-> "",
                       executions |-> analyze_dependencies(fn_args.calls)]
    /\ UNCHANGED <<fn_args, besideFn>>

\* execute_plan and the tool messages of the batch
ExecuteBatch ==
    /\ fn_pc = "analyzed"
    /\ fn_ret.raised = ""
    /\ fn_pc' = "dispatched"
    /\ LET d == ParallelDispatch(fn_args.calls, fn_args.selected_ids,
                                 fn_args.env, <<>>)
       IN fn_ret' = [raised |-> d.raised,
                     executions |-> fn_ret.executions,
                     executed |-> ExecutedIndexes(fn_args.calls),
                     answered_by |->
                        [i \in 1..Len(fn_args.calls) |->
                            AnsweredBy(fn_args.calls, i)],
                     messages |-> d.messages,
                     handlers |-> d.handlers]
    /\ UNCHANGED <<fn_args, besideFn>>

\* the only call of a response, executed through the registry
ExecuteSingle ==
    /\ fn_pc = "batch"
    /\ Len(fn_args.calls) = 1
    /\ fn_pc' = "dispatched"
    /\ LET d == Dispatch(fn_args.calls, TRUE, fn_args.selected_ids,
                         fn_args.env, <<>>)
       IN fn_ret' = [raised |-> d.raised,
                     executions |-> <<>>,
                     executed |-> {1},
                     answered_by |-> <<1>>,
                     messages |-> d.messages,
                     handlers |-> d.handlers]
    /\ UNCHANGED <<fn_args, besideFn>>

NextBatch ==
    \/ AnalyzeBatch
    \/ ExecuteBatch
    \/ ExecuteSingle

SpecBatch == InitBatch /\ [][NextBatch]_vars

----------------------------------------------------------------------------
(* Properties *)

Decided == pc \in {"decided", "clarify", "tool_loop", "done"}

\* the query contains a search keyword, in any letter case
QueryHasKeyword ==
    \E i \in 1..Len(query) : LowerAtom(query[i]) \in search_keywords

\* the query is empty or whitespace only
QueryIsBlank == \A i \in 1..Len(query) : query[i] = "ws"

\* the reply is a JSON object with a numeric scenario and confidence
ReplyNumeric ==
    /\ reply.kind = "json"
    /\ reply.scenario.k = "num"
    /\ reply.confidence.k = "num"

\* the classification did not yield a usable reply
ClassificationFailed ==
    \/ reply.kind \in {"transport_error", "malformed"}
    \/ reply.scenario.k = "bad"
    \/ reply.confidence.k = "bad"

IsFallbackRecord(d) ==
    /\ d.scenario = d.rule_guess
    /\ d.confidence = 0
    /\ d.follow_up = FALSE
    /\ d.clarifications = <<>>
    /\ d.intent = "None"

\* C1: the scenario decision never raises; on every classification failure,
\* a failed completion call included, it returns a decision whose scenario
\* is the rule guess.
C1_DecideNeverRaises ==
    pc # "start" =>
        /\ pc = "decided"
        /\ raised = ""
        /\ ClassificationFailed => decision.scenario = decision.rule_guess

\* C2: the scenario of the decision and of the AgentResult is one of 1..5
\* for every model response.
C2_ScenarioInRange ==
    /\ Decided => decision.scenario \in 1..5
    /\ pc = "done" => result.scenario \in 1..5

\* C3: a retrieval failure inside a search_user_documents call of the tool
\* loop ends the turn with the fixed "vector search unavailable" answer and
\* is never handed to the model as a tool error payload.
C3_OutageEndsTurn ==
    /\ ~outage_payload
    /\ outage_seen =>
        /\ pc = "done"
        /\ result.answer = "vector_search_unavailable"

\* C5: the tool loop makes at most max_iterations completion calls; it
\* returns the content of the first response without tool calls and calls
\* no more; when every one of the max_iterations responses asks for tools it
\* raises, and neither an answer nor the evidence gathered is returned.
C5_LoopTerminates ==
    /\ chat_calls <= max_iterations
    /\ pc = "tool_loop" => chat_calls = iteration /\ final_call = 0
    /\ final_call > 0 =>
        /\ pc = "done"
        /\ chat_calls = final_call
        /\ final_content = "None" => result.answer = ""
        /\ final_content # "None" => result.answer = final_content
        /\ result.used_chunks = collected_chunks
    /\ pc = "done" /\ path = "tool_loop" => final_call > 0
    /\ pc = "tool_loop" /\ iteration = max_iterations =>
        /\ ~ENABLED ToolLoopBatch
        /\ ENABLED ToolLoopExhausted
    /\ raised = "tool_loop_exceeded" =>
        /\ pc = "raised"
        /\ chat_calls = max_iterations
        /\ result = NoResult

\* the loop is exhausted with evidence in hand
C5_Witness ==
    /\ raised = "tool_loop_exceeded"
    /\ chat_calls = max_iterations
    /\ collected_chunks # <<>>

\* C6 as stated: a blank query without selected documents has rule guess 5
\* and is answered by the clarification path, the tool loop never entered,
\* whatever the classification reply.
C6_BlankAlwaysClarifies ==
    QueryIsBlank /\ selected_document_ids = {} /\ Decided =>
        /\ decision.rule_guess = 5
        /\ pc # "tool_loop"
        /\ ~handler_ran
        /\ path \in {"none", "clarification"}

\* C6 amended: a blank query without selected documents has rule guess 5;
\* when the reply does not parse or its confidence is below the threshold
\* the scenario stays 5, the tool loop is never entered and no tool runs,
\* and the answer is the clarification reply, or the predefined reply when
\* the reply has intent small_talk/off_topic and no follow_up.
C6_BlankClarifiesWhenGuessKept ==
    QueryIsBlank /\ selected_document_ids = {} /\ Decided =>
        /\ decision.rule_guess = 5
        /\ (\/ reply.kind = "malformed"
            \/ reply.confidence.k = "absent"
            \/ reply.confidence.v < orchestrator_confidence_threshold) =>
            /\ decision.scenario = 5
            /\ pc # "tool_loop"
            /\ ~handler_ran
            /\ chat_calls = 0
            /\ path = "predefined" <=>
                /\ pc = "done"
                /\ ~reply.follow_up
                /\ reply.intent \in {"small_talk", "off_topic"}
            /\ pc = "done" /\ path # "predefined" =>
                /\ path = "clarification"
                /\ result.answer = "clarification"
                /\ result.scenario = 5

C6_Witness ==
    /\ query = <<"ws">>
    /\ selected_document_ids = {}
    /\ reply.kind = "json"
    /\ reply.scenario = Num(1)
    /\ reply.confidence = Num(5)
    /\ pc = "done"
    /\ result.answer = "clarification"

\* C7 as stated: a keyword query without selected documents has rule guess
\* 1, and with a confidence below the threshold the turn's scenario is 1 and
\* the allowed tools are [search_user_documents], whatever follow_up, intent
\* and clarifications are.
C7_KeywordKeepsScenarioOne ==
    QueryHasKeyword /\ selected_document_ids = {} /\ Decided =>
        /\ decision.rule_guess = 1
        /\ (/\ ReplyNumeric
            /\ reply.confidence.v < orchestrator_confidence_threshold
            /\ pc = "done") =>
            /\ result.scenario = 1
            /\ tools_computed
            /\ allowed_tools = <<"search_user_documents">>

\* C7 amended: as stated when follow_up is false; when follow_up is true the
\* turn's scenario is 5 and no tool list is computed.
C7_KeywordKeepsScenarioOneUnlessFollowUp ==
    QueryHasKeyword /\ selected_document_ids = {} /\ Decided =>
        /\ decision.rule_guess = 1
        /\ (/\ ReplyNumeric
            /\ reply.confidence.v < orchestrator_confidence_threshold) =>
            /\ decision.scenario = 1
            /\ tools_computed => /\ ~reply.follow_up
                                 /\ allowed_tools = <<"search_user_documents">>
            /\ pc = "done" =>
                IF reply.follow_up
                THEN result.scenario = 5 /\ ~tools_computed
                ELSE result.scenario = 1 /\ tools_computed

C7_Witness ==
    /\ QueryHasKeyword
    /\ selected_document_ids = {}
    /\ reply.kind = "json"
    /\ reply.scenario = Num(2)
    /\ reply.confidence = Num(5)
    /\ reply.intent = "cbr_rate"
    /\ reply.clarifications # <<>>
    /\ ~reply.follow_up
    /\ pc = "done"
    /\ path = "tool_loop"
    /\ result.scenario = 1

\* C8: the rule guess is 3 when documents are selected, else 1 when the
\* query contains a search keyword, else 5 when the query is blank, else 2;
\* it is one of 1, 2, 3, 5 and the same for every history.
C8_RuleGuessPriority ==
    pc = "decided" =>
        LET rg == decision.rule_guess IN
        /\ rg \in {1, 2, 3, 5}
        /\ selected_document_ids # {} => rg = 3
        /\ selected_document_ids = {} /\ QueryHasKeyword => rg = 1
        /\ selected_document_ids = {} /\ ~QueryHasKeyword /\ QueryIsBlank
            => rg = 5
        /\ selected_document_ids = {} /\ ~QueryHasKeyword /\ ~QueryIsBlank
            => rg = 2
        /\ \A h \in Histories :
            _rule_guess_scenario(query, h, selected_document_ids) = rg

\* documents selected and a keyword in the query: the selection wins
C8_Witness ==
    /\ pc = "decided"
    /\ selected_document_ids # {}
    /\ QueryHasKeyword
    /\ history # <<>>
    /\ decision.rule_guess = 3

\* C9: when the reply parses, the decision takes the model's scenario when
\* its confidence is >= the threshold (equality included) and the rule guess
\* otherwise; where the two differ, the scenario is the model's if and only
\* if the confidence is >= the threshold.
C9_ConfidenceGate ==
    pc = "decided" /\ ReplyNumeric =>
        LET llm == reply.scenario.v
            conf == reply.confidence.v
            accepted == conf >= orchestrator_confidence_threshold
        IN  /\ accepted => decision.scenario = llm
            /\ ~accepted => decision.scenario = decision.rule_guess
            /\ llm # decision.rule_guess =>
                (decision.scenario = llm <=> accepted)

\* a confidence equal to the threshold accepts the model's scenario
C9_Witness ==
    /\ pc = "decided"
    /\ ReplyNumeric
    /\ reply.confidence.v = orchestrator_confidence_threshold
    /\ reply.scenario.v # decision.rule_guess
    /\ decision.scenario = reply.scenario.v

\* C10 as stated: a malformed reply, or one without a scenario or a
\* confidence key, gives exactly the fallback record.
C10_MissingFieldFallsBack ==
    (/\ pc = "decided"
     /\ \/ reply.kind = "malformed"
        \/ reply.scenario.k = "absent"
        \/ reply.confidence.k = "absent")
    => IsFallbackRecord(decision)

\* C10 amended: a malformed reply, or one whose scenario or confidence is
\* not numeric, gives exactly the fallback record; a reply that only lacks
\* the scenario or the confidence key is read with scenario 3 and confidence
\* 0.5 in their place and keeps its other fields.
C10_FallbackOnParseFailure ==
    pc = "decided" =>
        /\ ClassificationFailed =>
            /\ IsFallbackRecord(decision)
            /\ decision.use_query_expansion = "None"
            /\ decision.raw_response = NoReply
        /\ ~ClassificationFailed =>
            LET llm == IF reply.scenario.k = "absent" THEN 3
                       ELSE reply.scenario.v
                conf == IF reply.confidence.k = "absent" THEN 5
                        ELSE reply.confidence.v
            IN  /\ decision.confidence = conf
                /\ decision.scenario =
                       IF conf >= orchestrator_confidence_threshold
                       THEN llm ELSE decision.rule_guess
                /\ decision.follow_up = reply.follow_up
                /\ decision.intent = reply.intent
                /\ decision.raw_response = reply

\* a non-numeric scenario drops the fields the reply carried
C10_Witness ==
    /\ pc = "decided"
    /\ reply.kind = "json"
    /\ reply.scenario.k = "bad"
    /\ reply.follow_up
    /\ reply.intent # "None"
    /\ reply.clarifications # <<>>
    /\ IsFallbackRecord(decision)

\* C11: the allowed tools depend on (scenario, intent) only: scenarios 1 and
\* 4 give [search_user_documents], 3 gives [load_documents_full], 2 gives
\* the list of its intent, any other number gives []; outside scenario 2
\* the intent changes nothing.
C11_ToolSetSelection ==
    tools_computed =>
        LET i == decision.intent IN
        /\ scenario \in {1, 4} => allowed_tools = <<"search_user_documents">>
        /\ scenario = 3 => allowed_tools = <<"load_documents_full">>
        /\ scenario = 2 =>
            /\ i \in {"small_talk", "off_topic"} => allowed_tools = <<>>
            /\ i = "cbr_rate" => allowed_tools = <<"fetch_cbr_data">>
            /\ i = "finance_news" => allowed_tools = <<"fetch_finance_news">>
            /\ i = "knowledge_base" => allowed_tools = <<"search_general_kb">>
            /\ i = "hybrid_kb_docs" =>
                allowed_tools = <<"search_general_kb", "search_user_documents">>
            /\ i \notin {"small_talk", "off_topic", "cbr_rate", "finance_news",
                         "knowledge_base", "hybrid_kb_docs"} =>
                allowed_tools = <<"search_general_kb">>
        /\ scenario \notin 1..4 => allowed_tools = <<>>
        /\ scenario # 2 =>
            \A j \in RouteIntents :
                _tools_for_scenario(scenario, j) = allowed_tools

\* scenario 1 with a small-talk intent keeps the search tool
C11_Witness ==
    /\ tools_computed
    /\ scenario = 1
    /\ decision.intent = "small_talk"
    /\ allowed_tools = <<"search_user_documents">>

\* the turn has left the decision behind
Routed == path # "none"

CannedIntent == decision.intent \in {"small_talk", "off_topic"}

NoToolLoop ==
    /\ pc # "tool_loop"
    /\ ~handler_ran
    /\ chat_calls = 0
    /\ collected_chunks = <<>>
    /\ result.used_chunks = <<>>

\* C12 as stated: when the adjusted scenario is 5, or the allowed tools are
\* empty and the intent is neither small_talk nor off_topic, the answer is
\* the clarification reply and the tool loop is never entered.
C12_ScenarioFiveAlwaysClarifies ==
    (/\ Routed
     /\ \/ scenario = 5
        \/ tools_computed /\ allowed_tools = <<>> /\ ~CannedIntent)
    => /\ path = "clarification"
       /\ NoToolLoop
       /\ pc = "done" => result.answer = "clarification"

\* C12 amended: the same for a decision with follow_up, and otherwise when
\* the intent is neither small_talk nor off_topic; with one of these intents
\* and no follow_up the predefined reply is returned, scenario 5 included.
\* In each case the tool loop is never entered.
C12_ClarifiesUnlessCannedIntent ==
    Routed =>
        /\ (\/ decision.follow_up
            \/ /\ ~CannedIntent
               /\ scenario = 5 \/ (tools_computed /\ allowed_tools = <<>>))
            => /\ path = "clarification"
               /\ NoToolLoop
               /\ pc = "done" => result.answer = "clarification"
        /\ ~decision.follow_up /\ CannedIntent
            => /\ path = "predefined"
               /\ NoToolLoop
               /\ pc = "done" /\ result.answer = "predefined"

\* an empty tool list outside scenario 5 is answered by the clarification
C12_Witness ==
    /\ tools_computed
    /\ scenario \notin 1..5
    /\ allowed_tools = <<>>
    /\ ~CannedIntent
    /\ path = "clarification"
    /\ pc = "done"
    /\ result.answer = "clarification"

\* the execution the executor holds for each tool name of the plan
Held == PendingOf(ep_executions)

Terminal(n) == task[n].status \in {"returned", "raised"}

\* the result of the task of n has been processed after its wave
Processed(n) == plan_pc # "idle" /\ n \notin ep_pending /\ n \notin wave

\* C13: no attempt of an execution starts before every execution it depends
\* on is terminal: it returned, or it raised after its last retry.
C13_WaveOrdering ==
    LET held == Held IN
    \A n \in DOMAIN held :
        task[n].attempts > 0 =>
            \A d \in held[n].depends_on :
                /\ Terminal(d)
                /\ task[d].status = "raised" =>
                       task[d].attempts = max_retries + 1

\* an execution runs after the one it depends on has failed for good
C13_Witness ==
    \E n \in DOMAIN Held : \E d \in Held[n].depends_on :
        /\ d # n
        /\ task[d].status = "raised"
        /\ task[n].attempts > 0

\* C14: a wave without a ready execution while executions are pending makes
\* execute_plan raise, and no handler of a pending execution is invoked;
\* when no execution of the plan is free of dependencies, as in the cycle
\* A -> B -> C -> A, no handler is invoked at all.
C14_CircularLeavesPendingUntouched ==
    LET held == Held IN
    /\ plan_pc = "gathering" => wave # {} /\ wave \subseteq ep_pending
    /\ plan_pc = "returned" => ep_pending = {}
    /\ plan_pc = "raised" =>
        /\ ep_pending # {}
        /\ \A n \in ep_pending :
            /\ ~(held[n].depends_on \subseteq ep_completed)
            /\ task[n] = IdleTask
            /\ PendingIndex(ep_executions, n) \notin exec_result \cup exec_error
    /\ (\A n \in DOMAIN held : held[n].depends_on # {}) =>
        /\ plan_pc = "returned" <=> ep_executions = <<>> /\ plan_pc # "idle"
        /\ \A n \in PlanNames : task[n] = IdleTask

\* the cycle A -> B -> C -> A has raised
C14_Witness ==
    /\ ep_executions =
         <<[tool_name |-> "A", depends_on |-> {"C"}],
           [tool_name |-> "B", depends_on |-> {"A"}],
           [tool_name |-> "C", depends_on |-> {"B"}]>>
    /\ plan_pc = "raised"

\* C15: an execution that failed after its retries has its error recorded,
\* is not in the result map and is completed; the other tasks of its wave
\* still run and are recorded, and the executions that depend on it become
\* ready and run.
C15_FailureIsolation ==
    LET held == Held IN
    /\ \A n \in DOMAIN held :
        Processed(n) =>
            LET i == PendingIndex(ep_executions, n) IN
            /\ n \in ep_completed
            /\ Terminal(n)
            /\ task[n].status = "raised" =>
                /\ i \in exec_error
                /\ i \notin exec_result
                /\ n \notin ep_results
            /\ task[n].status = "returned" =>
                /\ i \in exec_result
                /\ n \in ep_results
    /\ plan_pc = "gathering" =>
        /\ \A n \in ep_pending :
            (\A d \in held[n].depends_on : d \in DOMAIN held /\ Processed(d))
                => n \in wave
    /\ plan_pc = "returned" => \A n \in DOMAIN held : Processed(n)

\* a failed execution, a task of its wave that succeeded, and an execution
\* that depends on the failed one and succeeded in a later wave
C15_Witness ==
    /\ plan_pc = "returned"
    /\ \E a, b, c \in DOMAIN Held :
        /\ a # c
        /\ Held[a].depends_on = {}
        /\ Held[c].depends_on = {}
        /\ Held[b].depends_on = {a}
        /\ task[a].status = "raised"
        /\ a \notin ep_results
        /\ task[b].status = "returned"
        /\ task[c].status = "returned"
        /\ {b, c} \subseteq ep_results

\* C16: a handler is invoked at most max_retries + 1 times; the attempts
\* stop at the first success; after max_retries + 1 failures the last error
\* is raised and nothing more is attempted.
C16_RetryBound ==
    \A n \in PlanNames :
        LET t == task[n] IN
        /\ t.attempts <= max_retries + 1
        /\ t.status = "idle" => t.attempts = 0
        /\ t.status = "retrying" =>
            t.attempts = t.failures /\ t.failures <= max_retries
        /\ t.status = "returned" => t.attempts = t.failures + 1
        /\ t.status = "raised" =>
            /\ t.failures = max_retries + 1
            /\ t.attempts = max_retries + 1
            /\ t.last_error = max_retries

\* one task has used every attempt and failed
C16_Witness ==
    \E n \in PlanNames :
        /\ task[n].status = "raised"
        /\ task[n].attempts = max_retries + 1

\* C17: no delay before the first attempt, a delay of 2^a after the failed
\* attempt a < max_retries, none after the last failed attempt: f failures
\* followed by a success leave the f delays 1, 2, 4, ...
C17_BackoffSchedule ==
    \A n \in PlanNames :
        LET t == task[n]
            slept == IF t.failures <= max_retries THEN t.failures
                     ELSE max_retries
        IN  /\ t.attempts <= 1 /\ t.failures = 0 => t.delays = <<>>
            /\ Len(t.delays) = slept
            /\ \A a \in 1..Len(t.delays) : t.delays[a] = 2 ^ (a - 1)
            /\ \A a \in 1..(Len(t.delays) - 1) : t.delays[a] < t.delays[a + 1]

\* two failures, then a success: the delays 1 and 2
C17_Witness ==
    \E n \in PlanNames :
        /\ task[n].status = "returned"
        /\ task[n].attempts = max_retries + 1
        /\ task[n].delays = <<1, 2>>

\* C18: the tool messages appended for a batch follow the order of the tool
\* calls in the model's request, one per call, whichever call completed
\* first and whichever wave it ran in: the message at position k answers
\* the call at position k.
C18_MessagesInRequestOrder ==
    \A k \in 1..Len(tool_messages) : tool_messages[k] = k

\* a batch run by the parallel executor in which a search failed for good
\* while evidence was already in hand
C18_Witness ==
    /\ enable_parallel
    /\ Len(tool_messages) > 1
    /\ outage_payload
    /\ collected_chunks # <<>>

C20_ArgumentErrorNotFatal ==
    /\ raised \notin {"ValueError", "AttributeError"}
    /\ ~arg_error_unreported

\* C21 as stated: expansions has at least one element for every base_query,
\* a blank one included, and every refinements and subqueries content.
C21_ExpansionsNeverEmpty ==
    fn_pc = "expanded" => fn_ret.expansions # <<>>

\* C21: for a base_query that is not blank, expansions starts with the
\* stripped base_query, so it is never empty, and it is exactly that one
\* element for the plan built from an empty or malformed planner response;
\* for a blank base_query it is empty when no refinement or subquery has
\* text.
C21_ExpansionsStartWithQuery ==
    fn_pc = "expanded" =>
        LET plan == fn_ret.plan
            items == plan.refinements \o plan.subqueries
        IN  /\ ~IsBlank(plan.base_query) =>
                /\ fn_ret.expansions # <<>>
                /\ fn_ret.expansions[1] = Strip(plan.base_query)
                /\ items = <<>> =>
                       fn_ret.expansions = <<Strip(plan.base_query)>>
            /\ IsBlank(plan.base_query) =>
                (fn_ret.expansions = <<>> <=>
                    \A i \in 1..Len(items) : IsBlank(items[i]))
            /\ fn_args # <<>> /\ fn_args.response.kind # "json" =>
                items = <<>>

\* the plan of a malformed planner response for a query with text
C21_Witness ==
    /\ fn_pc = "expanded"
    /\ fn_args # <<>>
    /\ fn_args.response.kind = "malformed"
    /\ fn_ret.plan.base_query = <<"ws", "a">>
    /\ fn_ret.expansions = <<<<"a">>>>

\* the positions of a chunk id in the result lists: list and rank
PositionsOf(cid) ==
    {p \in (1..Len(fn_args.results_by_query)) \X (1..2) :
        /\ p[2] <= Len(fn_args.results_by_query[p[1]])
        /\ fn_args.results_by_query[p[1]][p[2]].cid = cid}

\* the sum over a set of positions of RrfScale / (k + rank)
RECURSIVE SumOfRanks(_)
SumOfRanks(positions) ==
    IF positions = {} THEN 0
    ELSE LET p == CHOOSE q \in positions : TRUE
         IN (RrfScale \div (rrf_k + p[2])) + SumOfRanks(positions \ {p})

\* C22: the merge returns at most limit items, no chunk id twice, in the
\* order of non-increasing fused score.
C22_MergeBoundedUniqueSorted ==
    fn_pc = "merged" =>
        LET top == fn_ret.top_results
        IN  /\ Len(top) <= fn_args.limit
            /\ \A i, j \in 1..Len(top) : i # j => top[i].cid # top[j].cid
            /\ \A i \in 1..(Len(top) - 1) :
                   SumOfRanks(PositionsOf(top[i].cid))
                       >= SumOfRanks(PositionsOf(top[i + 1].cid))

\* more chunks than the limit, the one returned second ranked first in no
\* list
C22_Witness ==
    /\ fn_pc = "merged"
    /\ Len(fn_ret.top_results) = 2
    /\ Cardinality(DOMAIN fn_ret.fused_scores) = 3
    /\ SumOfRanks(PositionsOf(fn_ret.top_results[1].cid))
           > SumOfRanks(PositionsOf(fn_ret.top_results[2].cid))
    /\ fn_args.results_by_query[1][1].cid # fn_ret.top_results[1].cid

\* C23: the fused score of a chunk id is the sum over the lists of
\* 1/(k+i+1) for its zero-based position i; a chunk first in two lists
\* scores 2/(k+1) and is returned before any chunk that appears once, first
\* in its list.
C23_FusedScore ==
    fn_pc = "merged" =>
        /\ \A c \in ChunkIds :
               IF PositionsOf(c) = {} THEN c \notin DOMAIN fn_ret.fused_scores
               ELSE /\ c \in DOMAIN fn_ret.fused_scores
                    /\ fn_ret.fused_scores[c] = SumOfRanks(PositionsOf(c))
        /\ \A x, y \in ChunkIds :
               /\ Cardinality(PositionsOf(x)) = 2
               /\ \A p \in PositionsOf(x) : p[2] = 1
               /\ Cardinality(PositionsOf(y)) = 1
               /\ \A p \in PositionsOf(y) : p[2] = 1
               => /\ fn_ret.fused_scores[x] * (rrf_k + 1) = 2 * RrfScale
                  /\ fn_ret.fused_scores[y] * (rrf_k + 1) = RrfScale
                  /\ \A j \in 1..Len(fn_ret.top_results) :
                         fn_ret.top_results[j].cid = y =>
                             \E i \in 1..(j - 1) :
                                 fn_ret.top_results[i].cid = x

\* one chunk first in the second and third list, another first in the
\* first list only, both returned
C23_Witness ==
    /\ fn_pc = "merged"
    /\ Len(fn_args.results_by_query) = 3
    /\ PositionsOf(1) = {<<2, 1>>, <<3, 1>>}
    /\ PositionsOf(2) = {<<1, 1>>}
    /\ Len(fn_ret.top_results) = 2
    /\ fn_ret.top_results[1].cid = 1
    /\ fn_ret.top_results[2].cid = 2

\* C24: the item returned for a chunk id is an occurrence of it with the
\* highest raw score of all its occurrences, whatever the order of the
\* lists.
C24_BestInstance ==
    fn_pc = "merged" =>
        \A i \in 1..Len(fn_ret.top_results) :
            LET res == fn_ret.top_results[i]
            IN  /\ <<res.list, res.rank>> \in PositionsOf(res.cid)
                /\ fn_args.results_by_query[res.list][res.rank].score
                       = res.score
                /\ \A p \in PositionsOf(res.cid) :
                       fn_args.results_by_query[p[1]][p[2]].score
                           <= res.score

\* the better instance of a chunk comes from a later list
C24_Witness ==
    /\ fn_pc = "merged"
    /\ \E i \in 1..Len(fn_ret.top_results) :
        LET res == fn_ret.top_results[i]
        IN  /\ res.list > 1
            /\ \E p \in PositionsOf(res.cid) :
                   /\ p[1] < res.list
                   /\ fn_args.results_by_query[p[1]][p[2]].score < res.score

\* C25: remaining is the total budget less the fixed cost, not below 0; the
\* chunk budget is the floor of remaining times the weight and the history
\* budget the floor of remaining times one minus the weight; a fixed cost
\* of 1000 in a budget of 5000 at weight 0.4 gives 1600 and 2400, and both
\* are 0 when the fixed cost exceeds the budget.
C25_BudgetSplit ==
    fn_pc = "built" =>
        LET s == fn_ret.stats
            w == fn_args.chunk_weight
        IN  /\ s.total_budget = fn_args.max_tokens - 6000
            /\ s.remaining >= 0
            /\ s.remaining >= s.total_budget - s.base_tokens
            /\ s.remaining > 0 =>
                   s.remaining = s.total_budget - s.base_tokens
            /\ 10 * s.chunk_budget <= s.remaining * w
            /\ s.remaining * w < 10 * (s.chunk_budget + 1)
            /\ 10 * s.history_budget <= s.remaining * (10 - w)
            /\ s.remaining * (10 - w) < 10 * (s.history_budget + 1)
            /\ s.base_tokens = 1000 /\ s.total_budget = 5000 /\ w = 4 =>
                   s.chunk_budget = 1600 /\ s.history_budget = 2400
            /\ s.base_tokens > s.total_budget =>
                   s.chunk_budget = 0 /\ s.history_budget = 0

\* the fixed cost exceeds the budget
C25_Witness ==
    /\ fn_pc = "built"
    /\ fn_ret.stats.base_tokens > fn_ret.stats.total_budget
    /\ fn_ret.stats.chunk_budget = 0

\* C26: the evidence kept is a prefix of the evidence supplied, nothing is
\* dropped from fewer than 4 items, at least 3 items are kept of 3 or more,
\* and an item is dropped only while the cost exceeds the chunk budget and
\* more than 3 items remain.
C26_EvidenceFloor ==
    fn_pc = "built" =>
        LET kept == fn_ret.chunks
            n == Len(fn_args.chunks)
            m == Len(kept)
            cost(j) == ChunksTokens(SubSeq(optimize_chunks(fn_args.chunks),
                                           1, j))
        IN  /\ m <= n
            /\ \A i \in 1..m : kept[i].id = i
            /\ n < 4 => m = n
            /\ n >= 3 => m >= 3
            /\ m < n => cost(m + 1) > fn_ret.stats.chunk_budget
            /\ m > 3 => cost(m) <= fn_ret.stats.chunk_budget

\* four items supplied, three kept, and those three still over the budget
C26_Witness ==
    /\ fn_pc = "built"
    /\ Len(fn_args.chunks) = 4
    /\ Len(fn_ret.chunks) = 3
    /\ fn_ret.stats.chunks_tokens > fn_ret.stats.chunk_budget
    /\ fn_ret.stats.chunk_budget > 0

\* C27: the messages returned fit the budget: their estimated token count
\* is at most total_budget, also when the fixed cost alone exceeds the
\* budget and when the three items kept exceed the chunk budget.
C27_MessagesFitBudget ==
    fn_pc = "built" =>
        fn_ret.stats.total_tokens <= fn_ret.stats.total_budget

\* the calls of the client that have returned
ReturnedFetches == {c \in DOMAIN fetches : fetches[c].pc = "returned"}

\* C28: under every interleaving of the calls of a client at their awaits,
\* no call fails and no entry of the cache is anything but an entry some
\* call wrote; a response flagged cached carries the value a completed call
\* stored earlier under the same key, its time-to-live not yet over when it
\* was read; a response not flagged carries the caller's own data.
C28_CacheSafeUnderInterleaving ==
    /\ \A c \in ReturnedFetches :
        LET f == fetches[c]
        IN  /\ f.response.status \in {"ok", "stub"}
            /\ f.response.cached =>
                \E s \in stored :
                    /\ s.key = f.key
                    /\ s.value = f.response.value
                    /\ s.stored_at <= f.read_at
                    /\ s.expires_at > f.read_at
            /\ ~f.response.cached =>
                f.response.value \in {f.request, 0 - f.request}
    /\ \A k \in DOMAIN cache :
        cache[k] # NoEntry =>
            \E s \in stored :
                /\ s.key = k
                /\ s.value = cache[k].value
                /\ s.expires_at = cache[k].expires_at

\* two calls for one key were in flight together and both wrote it; a later
\* call is served the entry the second of them left
C28_Witness ==
    \E c \in ReturnedFetches :
        /\ fetches[c].response.cached
        /\ fetches[c].response.value = 2
        /\ \A v \in {1, 2} :
            \E s \in stored : /\ s.key = fetches[c].key
                              /\ s.value = v
                              /\ s.stored_at = fetches[c].read_at


\* C29: once a retrieval call has raised inside a search_user_documents tool
\* call, no retrieval call is issued again for that tool call: not by the
\* handler for its remaining queries, not by the executor as a new attempt.
C29_NoRetrievalAfterOutage == ~outage_retried


\* C30: at every completion call of the tool loop, the assistant message
\* that asked for tool calls is followed by exactly one tool message per
\* call, carrying that call's id: after the sequential path, after the
\* parallel path, and after an exception of the parallel execution.
C30_TranscriptWellFormed ==
    pc = "tool_loop" /\ iteration < max_iterations =>
        tool_messages = [k \in 1..requested_calls |-> k]


\* C31: in a batch of the parallel path that holds two calls of one tool
\* with different arguments, every call is executed and the tool message of
\* each call reports the execution of that call's own arguments.
C31_EveryDuplicateExecuted ==
    fn_pc = "dispatched" =>
        LET calls == fn_args.calls
        IN (\E i, j \in 1..Len(calls) :
                /\ i # j
                /\ calls[i].name = calls[j].name
                /\ AnalysedArgs(calls[i].args) # AnalysedArgs(calls[j].args))
           => \A i \in 1..Len(calls) :
                /\ i \in fn_ret.executed
                /\ fn_ret.answered_by[i] = i


\* C32: when execute_plan has returned, every execution of the plan it was
\* given has exactly one of its fields result and error set, and result is
\* set exactly for the executions whose tool name is in the returned map.
C32_AllExecutionsTerminal ==
    plan_pc = "returned" =>
        \A i \in 1..Len(ep_executions) :
            /\ (i \in exec_result) # (i \in exec_error)
            /\ (i \in exec_result) <=>
                   (ep_executions[i].tool_name \in ep_results)


\* C33: only the handlers of the tools of allowed_tools, the list computed
\* for the turn's scenario and intent, are ever invoked, on the sequential
\* and on the parallel path: a call that names another registered tool does
\* not reach its handler.
C33_OnlyAllowedToolsRun ==
    fn_pc = "dispatched" =>
        \A n \in fn_ret.handlers : Member(n, fn_args.allowed_tools)


\* C34: a turn starts with parallel execution enabled; once an exception of
\* the parallel execution has been caught in a turn, parallel execution
\* stays disabled and the executor is not called again in that turn: every
\* later batch, of several calls too, gets its tool messages from the
\* sequential path.
C34_TurnScopedFallback ==
    /\ pc = "start" => enable_parallel /\ ~parallel_raised
    /\ parallel_raised => ~enable_parallel
    /\ ~parallel_after_raise

\* after the fallback a batch of several calls has been answered call by
\* call
C34_Witness ==
    /\ parallel_raised
    /\ iteration > 1
    /\ requested_calls > 1
    /\ Len(tool_messages) = requested_calls


\* execute_plan has returned or raised
PlanEnded == plan_pc \in {"returned", "raised"}

\* C35: when every handler invocation terminates, execute_plan returns or
\* raises: every wave takes at least one execution out of pending, so there
\* are at most as many waves as executions, and no handler is invoked more
\* than max_retries + 1 times.
C35_ExecutePlanTerminates ==
    /\ [](/\ waves_run <= Len(ep_executions)
          /\ \A n \in PlanNames : task[n].attempts <= max_retries + 1)
    /\ [][(/\ plan_pc = "gathering"
           /\ waves_run' # waves_run \/ plan_pc' # plan_pc)
          => /\ ep_pending' \subseteq ep_pending
             /\ ep_pending' # ep_pending]_vars
    /\ <>PlanEnded

\* a plan of three executions that took three waves, one of them with every
\* retry used, has returned
C35_Witness ==
    /\ plan_pc = "returned"
    /\ waves_run = 3
    /\ Len(ep_executions) = 3
    /\ \E n \in PlanNames : task[n].attempts = max_retries + 1


\* C36: in the plan analyze_dependencies returns, a load_documents_full call
\* depends on search_user_documents exactly when its arguments carry no
\* document_ids and a search_user_documents call stands before it in the
\* batch; every other execution depends on nothing.  So every dependency is
\* on a tool of the batch that itself depends on nothing: no cycle.
C36_DependencyInference ==
    fn_pc = "analyzed" /\ fn_ret.raised = "" =>
        LET calls == fn_args.calls
            plan == fn_ret.executions
        IN  /\ Len(plan) = Len(calls)
            /\ \A i \in 1..Len(calls) :
                /\ plan[i].tool_name = calls[i].name
                /\ plan[i].depends_on =
                    IF /\ calls[i].name = "load_documents_full"
                       /\ calls[i].args \in {"missing", "unparsable"}
                       /\ \E j \in 1..(i - 1) :
                              calls[j].name = "search_user_documents"
                    THEN {"search_user_documents"}
                    ELSE {}
                /\ \A d \in plan[i].depends_on :
                    \E j \in 1..Len(plan) :
                        /\ plan[j].tool_name = d
                        /\ plan[j].depends_on = {}

\* a search, then a load without document_ids: the dependency is inferred;
\* and a load with document_ids after a search: none is
C36_Witness ==
    /\ fn_pc = "analyzed"
    /\ fn_ret.raised = ""
    /\ fn_args.calls[1].name = "search_user_documents"
    /\ fn_args.calls[2].name = "load_documents_full"
    /\ fn_ret.executions[2].depends_on = {"search_user_documents"}


\* C37: once run() has adjusted the scenario: if the decided scenario is 3
\* or 4 and documents are selected, the total length of the documents is in
\* the debug record and the scenario is 4 when that length exceeds
\* max_context_chars and 3 otherwise; for every other decided scenario, and
\* without selected documents, the scenario is the decided one and no
\* document was loaded.
C37_ScenarioAdjustment ==
    tools_computed =>
        IF decision.scenario \in {3, 4} /\ selected_document_ids # {}
        THEN /\ debug_total_length >= 0
             /\ debug_total_length > max_context_chars => scenario = 4
             /\ debug_total_length <= max_context_chars => scenario = 3
        ELSE /\ scenario = decision.scenario
             /\ debug_total_length = -1

\* a decided scenario 4 lowered to 3: the selected documents fit
C37_Witness ==
    /\ tools_computed
    /\ decision.scenario = 4
    /\ selected_document_ids # {}
    /\ debug_total_length = max_context_chars
    /\ scenario = 3


\* C38 as stated: a decided scenario 2 with the intent small_talk or
\* off_topic is answered by the predefined reply: the tool loop is not
\* entered, no handler runs, no completion call follows the classification.
C38_CannedIntentAlwaysPredefined ==
    Routed /\ decision.scenario = 2 /\ CannedIntent =>
        /\ path = "predefined"
        /\ NoToolLoop
        /\ pc = "done"
        /\ result.answer = "predefined"


\* C38: a decision without follow_up whose intent is small_talk or off_topic
\* is answered by the predefined reply, in scenario 2 as in any other: the
\* tool loop is not entered, no handler runs and no completion call follows
\* the classification.  With follow_up the clarification is asked instead.
C38_CannedIntentWithoutFollowUp ==
    Routed /\ CannedIntent =>
        IF decision.follow_up
        THEN path = "clarification" /\ NoToolLoop
        ELSE /\ path = "predefined"
             /\ NoToolLoop
             /\ pc = "done"
             /\ result.answer = "predefined"

\* small talk decided as scenario 2 and answered by the predefined reply
C38_Witness ==
    /\ decision.scenario = 2
    /\ decision.intent = "small_talk"
    /\ ~decision.follow_up
    /\ path = "predefined"
    /\ pc = "done"
    /\ result.answer = "predefined"


\* C39: truncate_to_budget returns every system message of the history,
\* whatever the budget, and of the other messages a tail, in their order,
\* whose estimated cost (content estimate + 4 each) is within the budget;
\* the message before the tail is the first, going backwards, that did not
\* fit in what the system messages leave of the budget.
C39_KeepsRecentSuffix ==
    fn_pc = "truncated" =>
        LET system_msgs == OfRole(fn_args.messages, TRUE)
            other_msgs == OfRole(fn_args.messages, FALSE)
            kept == OfRole(fn_ret, FALSE)
            k == Len(kept)
            n == Len(other_msgs)
            left == fn_args.budget - estimate_messages_tokens(system_msgs)
        IN  /\ OfRole(fn_ret, TRUE) = system_msgs
            /\ k <= n
            /\ kept = SubSeq(other_msgs, n - k + 1, n)
            /\ estimate_messages_tokens(kept) <= fn_args.budget
            /\ k > 0 => estimate_messages_tokens(kept) <= left
            /\ k < n =>
                estimate_messages_tokens(kept)
                    + estimate_tokens(other_msgs[n - k].chars)
                    + message_overhead > left

\* of three messages that are not system messages the last is kept and the
\* one before it does not fit; a system message is kept as well
C39_Witness ==
    /\ fn_pc = "truncated"
    /\ Len(OfRole(fn_args.messages, FALSE)) > 1
    /\ Len(OfRole(fn_ret, FALSE)) = 1
    /\ Len(OfRole(fn_ret, TRUE)) = 1


\* the search has run for a query with text and a planner outcome that
\* cannot be parsed into a plan
UnparsedSearched ==
    /\ fn_pc = "searched"
    /\ fn_args # <<>>
    /\ fn_args.response.kind \in UnparsedKinds
    /\ ~IsBlank(fn_args.query)

\* C40 as stated: for any planner outcome that cannot be parsed into a plan
\* the plan's expansions are exactly the query as given and the search makes
\* exactly one retrieval call.
C40_DegradesToQueryAsGiven ==
    UnparsedSearched =>
        /\ fn_ret.expansions = <<fn_args.query>>
        /\ Len(fn_ret.queries) = 1

\* C40: for any planner outcome that cannot be parsed into a plan (text that
\* is not JSON, JSON that is not an object, null content, a failed
\* completion call) and a query with text, the plan has no refinement and no
\* subquery, its expansions are exactly the stripped query, and the search
\* makes exactly one retrieval call, for the stripped query.
C40_DegradesToStrippedQuery ==
    UnparsedSearched =>
        /\ fn_ret.plan = FusionPlan(fn_args.query, <<>>, <<>>)
        /\ fn_ret.expansions = <<Strip(fn_args.query)>>
        /\ fn_ret.queries = <<Strip(fn_args.query)>>

\* null content from the planner for a query with surrounding whitespace:
\* one retrieval call for the stripped query
C40_Witness ==
    /\ UnparsedSearched
    /\ fn_args.response.kind = "null_content"
    /\ fn_args.query = <<"ws", "a">>
    /\ fn_ret.queries = <<<<"a">>>>

====
